---- MODULE Spec2Model ----
(***************************************************************************)
(* State-machine model of the lava lamp physics engine                      *)
(* (src/lavalamp/engine.py: WaxType, Blob, PhysicsParams, LavaLampEngine).  *)
(*                                                                          *)
(* Python floats are modelled in fixed point: the integer S stands for 1.0, *)
(* so 0.05 is 500 and 0.35 is 3500.  Products and quotients truncate        *)
(* towards zero.  Blob masses (warm_radius cubed, at most 0.007) are kept   *)
(* in units of 10^-9 so that the cube of a radius is not rounded away.      *)
(* Angles are in radians, in the same fixed point.                          *)
(***************************************************************************)
EXTENDS Integers, Sequences, FiniteSets, TLC

S == 10000

\* ------------------------------------------------------------------------
\* Bounds of the model
\* ------------------------------------------------------------------------
\* largest blob_count given to the constructor or to reset (the pool is extra)
MaxCount == 2
\* number of engine operations explored after construction
MaxOps == 4
\* number of operations explored on an engine with unusual parameters
ParamOps == 2
\* number of operations explored on a pair of engines
TwinOps == 3
\* number of engine operations explored between renders
RenderOps == 3
\* number of operations explored on a lamp that is shaken
ShakeOps == 7
\* number of steps explored from a meeting of two blobs
MeetOps == 2
\* simulated seconds explored by the melt specification (beyond warmup_duration)
MeltHorizon == 19

\* ------------------------------------------------------------------------
\* Arithmetic
\* ------------------------------------------------------------------------
Abs(a) == IF a < 0 THEN -a ELSE a
Min(a, b) == IF a < b THEN a ELSE b
Max(a, b) == IF a > b THEN a ELSE b
Sgn(a) == IF a < 0 THEN -1 ELSE 1

\* a * b for fixed-point a, b (split so that the product stays in 32 bits)
Mul(a, b) ==
  LET x == Abs(a)
      y == Abs(b)
  IN  Sgn(a) * Sgn(b) * ((x \div S) * y + (x % S) * (y \div S)
                         + ((x % S) * (y % S)) \div S)

\* a / b for fixed-point a, b (b # 0; split so that |b| < 200000 cannot overflow)
Div(a, b) ==
  LET x == Abs(a)
      y == Abs(b)
  IN  Sgn(a) * Sgn(b) * ((x \div y) * S + ((x % y) * S) \div y)

RECURSIVE SqrtIter(_, _, _)
SqrtIter(n, lo, hi) ==
  IF lo >= hi THEN lo
  ELSE LET m == (lo + hi + 1) \div 2
       IN  IF m * m <= n THEN SqrtIter(n, m, hi) ELSE SqrtIter(n, lo, m - 1)

\* floor of the square root of a natural number below 2^31
ISqrt(n) == SqrtIter(n, 0, 46340)

\* sqrt(dx*dx + dy*dy + dz*dz); large arguments are scaled down first so that
\* the squares stay in 32 bits
Hypot(dx, dy, dz) ==
  IF Max(Abs(dx), Max(Abs(dy), Abs(dz))) < 26000
  THEN ISqrt(dx * dx + dy * dy + dz * dz)
  ELSE 64 * ISqrt((dx \div 64) * (dx \div 64) + (dy \div 64) * (dy \div 64)
                  + (dz \div 64) * (dz \div 64))

\* math.sqrt of a fixed-point value in [0, 1]
Sqrt(x) == ISqrt(x * S)

Pi == 31416
TwoPi == 62832

\* sine on [0, pi] (Bhaskara's rational approximation of math.sin)
SinHalf(x) ==
  LET q == Mul(x, Pi - x)
  IN  (4 * q * S) \div ((5 * Mul(Pi, Pi) - 4 * q) \div 4)

Sin(a) ==
  LET r == a % TwoPi
  IN  IF r <= Pi THEN SinHalf(r) ELSE -SinHalf(r - Pi)

Cos(a) == Sin(a + Pi \div 2)

\* ------------------------------------------------------------------------
\* Random generator: a seeded generator is a deterministic function of its
\* state.  The model uses a full-period congruential generator on RngMod
\* states; a draw returns a value of [lo, hi) and advances the state.
\* ------------------------------------------------------------------------
RngMod == 256

RngNext(s) == (141 * s + 3) % RngMod

Uniform(lo, hi, s) == lo + ((hi - lo) * s) \div RngMod

default_rng(seed) == (seed * 89 + 17) % RngMod

\* ------------------------------------------------------------------------
\* Materials
\* ------------------------------------------------------------------------
WaxType(name, density, heat_sensitivity, viscosity, expansion) ==
  [name |-> name, density |-> density, heat_sensitivity |-> heat_sensitivity,
   viscosity |-> viscosity, expansion |-> expansion]

StandardWax == WaxType("Standard", S, S, S, S)

WAX_TYPE_NAMES == <<"standard", "heavy", "light", "sluggish", "volatile", "giant">>

WAX_TYPES_INIT ==
  [k \in {WAX_TYPE_NAMES[n] : n \in 1..Len(WAX_TYPE_NAMES)} |->
     CASE k = "standard" -> WaxType("Standard", 10000, 10000, 10000, 10000)
       [] k = "heavy"    -> WaxType("Heavy", 16000, 7000, 13000, 8000)
       [] k = "light"    -> WaxType("Light", 6000, 13000, 7000, 12000)
       [] k = "sluggish" -> WaxType("Sluggish", 12000, 5000, 20000, 9000)
       [] k = "volatile" -> WaxType("Volatile", 8000, 20000, 5000, 15000)
       [] k = "giant"    -> WaxType("Giant Globule", 11000, 6000, 15000, 14000)]

\* ------------------------------------------------------------------------
\* Physics parameters
\* ------------------------------------------------------------------------
PhysicsParams ==
  [gravity |-> 1800, buoyancy_max |-> 6500, h_drag |-> 25000, v_drag |-> 16000,
   heat_strength |-> 10000, heat_zone |-> 3000, cool_zone |-> 6500,
   melt_temp |-> 2800, mid_cool_rate |-> 800, top_cool_rate |-> 25000,
   repulsion_strength |-> 15000, thermal_separation |-> 6000,
   displacement_range |-> 18000, displacement_strength |-> 4000,
   approach_deflection |-> 6000, wall_radius |-> 4200,
   warmup_duration |-> 180000, cold_radius_fraction |-> 3500,
   flow_speed |-> 10000]

\* app.py builds the parameters from --warmup; the model tries the default and a
\* lamp that is warm after 0.1 s
FastWarmup == [PhysicsParams EXCEPT !.warmup_duration = 1000]

\* ------------------------------------------------------------------------
\* Blobs and the object heap of materials
\* ------------------------------------------------------------------------
NumPresets == Len(WAX_TYPE_NAMES)

\* WAX_TYPES: preset key -> the (shared) WaxType object, objects 1..NumPresets
WAX_TYPES == [k \in DOMAIN WAX_TYPES_INIT |->
                CHOOSE n \in 1..NumPresets : WAX_TYPE_NAMES[n] = k]

MaxBlobs == MaxCount + 1

WaxIds == 1..(NumPresets + MaxBlobs)

FreeWax == WaxType("", 0, 0, 0, 0)

\* WaxType(...) evaluated for blob i (1-based): a new object, which only that
\* blob will refer to; the object it replaces is unreferenced and collected
NewWaxId(i) == NumPresets + i

\* r ** 3 in units of 10^-9
Cube(r) == (((r * r) \div 10) * r) \div 100

\* None, as the value of an optional colour
None == <<>>

\* fault variant: the mass taken from the initial (cold) radius
BlobMassOfRadius(x, y, z, warm_radius, waxId) ==
  [x |-> x, y |-> y, z |-> z, vx |-> 0, vy |-> 0, vz |-> 0,
   warm_radius |-> warm_radius,
   cold_radius |-> Mul(warm_radius, 3500),
   radius |-> Mul(warm_radius, 3500),
   base_radius |-> warm_radius,
   temperature |-> 0,
   mass |-> Cube(Mul(warm_radius, 3500)),
   detached |-> FALSE,
   color |-> None,
   hot_color |-> None,
   wax |-> waxId,
   label |-> <<>>]

\* Blob(x, y, z, warm_radius) followed by __post_init__
Blob(x, y, z, warm_radius, waxId) ==
  [x |-> x, y |-> y, z |-> z, vx |-> 0, vy |-> 0, vz |-> 0,
   warm_radius |-> warm_radius,
   cold_radius |-> Mul(warm_radius, 3500),
   radius |-> Mul(warm_radius, 3500),
   base_radius |-> warm_radius,
   temperature |-> 0,
   mass |-> Cube(warm_radius),
   detached |-> FALSE,
   color |-> None,
   hot_color |-> None,
   wax |-> waxId,
   label |-> <<>>]

\* the rng state after k draws
RECURSIVE Advance(_, _)
Advance(s, k) == IF k = 0 THEN s ELSE Advance(RngNext(s), k - 1)

\* fault variant: the cold radius left as __post_init__ set it
RingBlobDefaultCold(i, count, frac, s) ==
  LET s1 == RngNext(s)
      s2 == RngNext(s1)
      s3 == RngNext(s2)
      angle == (i * TwoPi) \div Max(count, 1) + Uniform(-2500, 2500, s)
      spread == 400 + Uniform(0, 500, s1)
      r == 1000 + Uniform(0, 600, s2)
  IN  [Blob(Mul(Cos(angle), spread), 200 + Uniform(0, 300, s3),
            Mul(Sin(angle), spread), r, NewWaxId(i + 1))
         EXCEPT !.label = <<"Blob", i + 1>>]

\* one iteration of the loop of _create_blobs, i = 0..count-1, from rng state s
RingBlob(i, count, frac, s) ==
  LET s1 == RngNext(s)
      s2 == RngNext(s1)
      s3 == RngNext(s2)
      angle == (i * TwoPi) \div Max(count, 1) + Uniform(-2500, 2500, s)
      spread == 400 + Uniform(0, 500, s1)
      r == 1000 + Uniform(0, 600, s2)
      b == Blob(Mul(Cos(angle), spread), 200 + Uniform(0, 300, s3),
                Mul(Sin(angle), spread), r, NewWaxId(i + 1))
  IN  [b EXCEPT !.cold_radius = Mul(r, frac), !.radius = Mul(r, frac),
                !.label = <<"Blob", i + 1>>]

PoolBlob(count, frac) ==
  LET b == Blob(0, 200, 0, 1900, NewWaxId(count + 1))
  IN  [b EXCEPT !.cold_radius = Mul(1900, frac), !.radius = Mul(1900, frac),
                !.label = <<"Pool">>]

_create_blobs(count, frac, s) ==
  [k \in 1..(count + 1) |->
     IF k <= count THEN RingBlob(k - 1, count, frac, Advance(s, 4 * (k - 1)))
     ELSE PoolBlob(count, frac)]

\* the heap after reset: presets as they are, one new WaxType() per blob
ResetHeap(h, count) ==
  [id \in WaxIds |->
     IF id <= NumPresets THEN h[id]
     ELSE IF id - NumPresets <= count + 1 THEN StandardWax ELSE FreeWax]

\* ------------------------------------------------------------------------
\* step: the per-blob loop
\* ------------------------------------------------------------------------
\* fault variant: a lamp without warm-up period reported as cold
warmup_fractionColdWithoutWarmup(p, t) ==
  IF p.warmup_duration <= 0 THEN 0 ELSE Min(S, Div(t, p.warmup_duration))

\* the warmup_fraction property for warmup time t
warmup_fraction(p, t) ==
  IF p.warmup_duration <= 0 THEN S ELSE Min(S, Div(t, p.warmup_duration))

\* t * t * (3 - 2 t)
Smoothstep(t) == Mul(Mul(t, t), 3 * S - 2 * t)

effective_heat(p, t) == Mul(p.heat_strength, Smoothstep(warmup_fraction(p, t)))

\* fault variant: heating without the clamp at 1.0
ThermalNoClamp(b, w, p, dt, eff) ==
  LET heated ==
        IF b.y < p.heat_zone /\ eff > 100
        THEN LET proximity == Max(0, S - Div(b.y, p.heat_zone))
                 mass_scale == 6000 + Mul(8000, S - b.mass \div 700)
                 heat_rate == Mul(Mul(Mul(Mul(proximity, proximity), 3 * S), eff),
                                  mass_scale)
             IN  b.temperature + Mul(Mul(heat_rate, w.heat_sensitivity), dt)
        ELSE b.temperature
  IN  IF b.y > p.cool_zone
      THEN LET cool_frac == Div(b.y - p.cool_zone, S - p.cool_zone)
           IN  Max(0, heated - Mul(Mul(Mul(cool_frac, p.top_cool_rate),
                                       w.heat_sensitivity), dt))
      ELSE IF b.y > p.heat_zone
      THEN Max(0, heated - Mul(Mul(p.mid_cool_rate, w.heat_sensitivity), dt))
      ELSE heated

\* fault variant: heat added however little the lamp has warmed up
ThermalAnyHeat(b, w, p, dt, eff) ==
  LET heated ==
        IF b.y < p.heat_zone
        THEN LET proximity == Max(0, S - Div(b.y, p.heat_zone))
                 mass_scale == 6000 + Mul(8000, S - b.mass \div 700)
                 heat_rate == Mul(Mul(Mul(Mul(proximity, proximity), 3 * S), eff),
                                  mass_scale)
             IN  Min(S, b.temperature + Mul(Mul(heat_rate, w.heat_sensitivity), dt))
        ELSE b.temperature
  IN  IF b.y > p.cool_zone
      THEN LET cool_frac == Div(b.y - p.cool_zone, S - p.cool_zone)
           IN  Max(0, heated - Mul(Mul(Mul(cool_frac, p.top_cool_rate),
                                       w.heat_sensitivity), dt))
      ELSE IF b.y > p.heat_zone
      THEN Max(0, heated - Mul(Mul(p.mid_cool_rate, w.heat_sensitivity), dt))
      ELSE heated

\* heat transfer and cooling: the new temperature of blob b with material w
Thermal(b, w, p, dt, eff) ==
  LET heated ==
        IF b.y < p.heat_zone /\ eff > 100
        THEN LET proximity == Max(0, S - Div(b.y, p.heat_zone))
                 mass_scale == 6000 + Mul(8000, S - b.mass \div 700)
                 heat_rate == Mul(Mul(Mul(Mul(proximity, proximity), 3 * S), eff),
                                  mass_scale)
             IN  Min(S, b.temperature + Mul(Mul(heat_rate, w.heat_sensitivity), dt))
        ELSE b.temperature
  IN  IF b.y > p.cool_zone
      THEN LET cool_frac == Div(b.y - p.cool_zone, S - p.cool_zone)
           IN  Max(0, heated - Mul(Mul(Mul(cool_frac, p.top_cool_rate),
                                       w.heat_sensitivity), dt))
      ELSE IF b.y > p.heat_zone
      THEN Max(0, heated - Mul(Mul(p.mid_cool_rate, w.heat_sensitivity), dt))
      ELSE heated

\* fault variant: the expansion range taken from warm_radius alone
ExpansionFromWarm(b, w, temp) ==
  LET expand_t == Max(0, Min(S, Div(temp, 6000)))
      expand_eased == Smoothstep(expand_t)
      expansion_range == Mul(b.warm_radius, w.expansion)
  IN  b.cold_radius + Mul(expansion_range, expand_eased)

\* fault variant: the expansion eased over the whole temperature range
ExpansionToFullHeat(b, w, temp) ==
  LET expand_t == Max(0, Min(S, temp))
      expand_eased == Smoothstep(expand_t)
      expansion_range == Mul(b.warm_radius - b.cold_radius, w.expansion)
  IN  b.cold_radius + Mul(expansion_range, expand_eased)

\* expansion: the radius of blob b with material w at temperature temp
Expansion(b, w, temp) ==
  LET expand_t == Max(0, Min(S, Div(temp, 6000)))
      expand_eased == Smoothstep(expand_t)
      expansion_range == Mul(b.warm_radius - b.cold_radius, w.expansion)
  IN  b.cold_radius + Mul(expansion_range, expand_eased)

\* the square-root melt ramp (0 at or below melt_temp)
Ramp(p, temp) ==
  IF temp > p.melt_temp THEN Sqrt(Div(temp - p.melt_temp, S - p.melt_temp)) ELSE 0

\* fault variant: the launch threshold 3.5 in place of 0.35
MeltsLate(b, p, temp) == temp > p.melt_temp /\ ~b.detached /\ Ramp(p, temp) > 35000

\* fault variant: the launch test without the test of the detached flag
MeltsAgain(b, p, temp) == temp > p.melt_temp /\ Ramp(p, temp) > 3500

\* detached is set by the buoyancy block when the blob melts loose
Melts(b, p, temp) == temp > p.melt_temp /\ ~b.detached /\ Ramp(p, temp) > 3500

\* heat transfer and cooling applied to blob b
Heated(b, w, p, dt, eff) == [b EXCEPT !.temperature = Thermal(b, w, p, dt, eff)]

\* the expansion block applied to blob b
Expanded(b, w) == [b EXCEPT !.radius = Expansion(b, w, b.temperature)]

\* net_vertical of the buoyancy block
NetVertical(b, w, p) ==
  LET gravity == Mul(-Mul(p.gravity, p.flow_speed), w.density)
      buoy_max == Div(Mul(p.buoyancy_max, p.flow_speed), Max(w.density, 1000))
  IN  IF b.temperature > p.melt_temp
      THEN gravity + Mul(Ramp(p, b.temperature), buoy_max - gravity)
      ELSE gravity

\* fault variant: a blob that does not melt loose in this iteration is grounded
LaunchedOrGrounded(b, w, p, s) ==
  IF Melts(b, p, b.temperature)
  THEN [b EXCEPT !.detached = TRUE,
                 !.vy = @ + Div(1200 + Uniform(0, 800, s), Max(w.viscosity, 1000))]
  ELSE [b EXCEPT !.detached = FALSE]

\* the buoyancy block: a blob that melts loose is detached with a launch kick
Launched(b, w, p, s) ==
  IF Melts(b, p, b.temperature)
  THEN [b EXCEPT !.detached = TRUE,
                 !.vy = @ + Div(1200 + Uniform(0, 800, s), Max(w.viscosity, 1000))]
  ELSE b

\* drag, net vertical force and random drift, from rng state s (two draws)
Forced(b, w, p, dt, s) ==
  LET drift == IF b.detached THEN 600 ELSE 80
  IN  [b EXCEPT
         !.vx = @ + Mul(Mul(-Mul(p.h_drag, w.viscosity), @), dt)
                  + Mul(Mul(Uniform(-5000, 5000, s), drift), dt),
         !.vy = @ + Mul(NetVertical(b, w, p) - Mul(Mul(p.v_drag, w.viscosity), @), dt),
         !.vz = @ + Mul(Mul(-Mul(p.h_drag, w.viscosity), @), dt)
                  + Mul(Mul(Uniform(-5000, 5000, RngNext(s)), drift), dt)]

\* the position update
Moved(b, dt) ==
  [b EXCEPT !.x = @ + Mul(b.vx, dt), !.y = @ + Mul(b.vy, dt), !.z = @ + Mul(b.vz, dt)]

\* the blob is outside the cylindrical wall
WallHit(b, p) ==
  /\ Hypot(b.x, 0, b.z) > p.wall_radius - Mul(b.radius, 4000)
  /\ Hypot(b.x, 0, b.z) > 10

\* fault variant: the outward velocity reflected, the position left outside
WallClampVelocityOnly(b, nx, nz, max_r) ==
  LET vn == Mul(b.vx, nx) + Mul(b.vz, nz)
  IN  [b EXCEPT !.vx = IF vn > 0 THEN @ - Mul(Mul(15000, vn), nx) ELSE @,
                !.vz = IF vn > 0 THEN @ - Mul(Mul(15000, vn), nz) ELSE @]

\* the blob put back on the wall at radius max_r, its outward velocity reflected
WallClamp(b, nx, nz, max_r) ==
  LET vn == Mul(b.vx, nx) + Mul(b.vz, nz)
  IN  [b EXCEPT !.x = Mul(nx, max_r), !.z = Mul(nz, max_r),
                !.vx = IF vn > 0 THEN @ - Mul(Mul(15000, vn), nx) ELSE @,
                !.vz = IF vn > 0 THEN @ - Mul(Mul(15000, vn), nz) ELSE @]

\* the cylindrical wall block
Walled(b, p) ==
  IF WallHit(b, p)
  THEN WallClamp(b, Div(b.x, Hypot(b.x, 0, b.z)), Div(b.z, Hypot(b.x, 0, b.z)),
                 p.wall_radius - Mul(b.radius, 4000))
  ELSE b

BelowFloor(b) == b.y < Mul(b.radius, 2500)

\* fault variant: the floor test leaves the detached flag as it is
FlooredStillDetached(b) ==
  IF BelowFloor(b)
  THEN [b EXCEPT !.y = Mul(b.radius, 2500), !.vy = Mul(Abs(@), 1500)]
  ELSE b

\* the floor test
Floored(b) ==
  IF BelowFloor(b)
  THEN [b EXCEPT !.y = Mul(b.radius, 2500), !.vy = Mul(Abs(@), 1500),
                 !.detached = FALSE]
  ELSE b

AboveCeiling(b) == b.y > S - Mul(b.radius, 2500)

\* the ceiling test
Ceiled(b) ==
  IF AboveCeiling(b)
  THEN [b EXCEPT !.y = S - Mul(b.radius, 2500), !.vy = -Mul(Abs(@), 2500)]
  ELSE b

\* the loop body from the floor test on, for a blob b past the wall block;
\* f tells the y and the temperature with which the blob entered the body,
\* whether it entered it detached, whether it melted loose and what the buoyancy
\* block added to its vy
FromFloor(b, f, wall, s) ==
  [b |-> Ceiled(Floored(b)), rng |-> s,
   ev |-> [y0 |-> f.y0, temp0 |-> f.temp0,
           was |-> f.was, melted |-> f.melted, kick |-> f.kick, wall |-> wall,
           floor |-> BelowFloor(b), vy_at_floor |-> b.vy,
           ceil |-> AboveCeiling(Floored(b)), vy_at_ceiling |-> Floored(b).vy]]

\* the loop body from the wall block on, for a blob b past the position update
FromWall(b, p, f, s) == FromFloor(Walled(b, p), f, WallHit(b, p), s)

\* the loop body from the drag block on, for a blob b past the buoyancy block
FromForces(b, w, p, dt, f, s) ==
  FromWall(Moved(Forced(b, w, p, dt, s), dt), p, f, RngNext(RngNext(s)))

\* the loop body from the buoyancy block on, for a blob b past the expansion
\* that entered the body as b0
FromBuoyancy(b, b0, w, p, dt, s) ==
  FromForces(Launched(b, w, p, s), w, p, dt,
             [y0 |-> b0.y, temp0 |-> b0.temperature,
              was |-> b.detached, melted |-> Melts(b, p, b.temperature),
              kick |-> Launched(b, w, p, s).vy - b.vy],
             IF Melts(b, p, b.temperature) THEN RngNext(s) ELSE s)

\* One iteration of the loop over the blobs, from rng state s.  The result
\* holds the updated blob, the rng state, and what happened to the blob.
StepBlob(b, w, p, dt, eff, s) ==
  FromBuoyancy(Expanded(Heated(b, w, p, dt, eff), w), b, w, p, dt, s)

\* ------------------------------------------------------------------------
\* step: the pairwise interaction pass
\* ------------------------------------------------------------------------
\* fault variant: the push split evenly between the two blobs
MassRatioEven(ma, mb) == S \div 2

\* a.mass / (a.mass + bj.mass)
MassRatio(ma, mb) ==
  ((ma * 100) \div (ma + mb)) * 100 + (((ma * 100) % (ma + mb)) * 100) \div (ma + mb)

\* sqrt(dx*dx + dy*dy + dz*dz) or 0.001
Distance(a, bj) ==
  LET dx == bj.x - a.x
      dy == bj.y - a.y
      dz == bj.z - a.z
      d == Hypot(dx, dy, dz)
  IN  IF d = 0 THEN 10 ELSE d

\* fault variant: the cutoff taken from the diameters
FarDistOfDiameters(a, bj, p) == Mul(2 * (a.radius + bj.radius), p.displacement_range)

FarDist(a, bj, p) == Mul(a.radius + bj.radius, p.displacement_range)

CloseDist(a, bj) == Mul(a.radius + bj.radius, 7000)

\* the pair is skipped by the loop (continue)
Skipped(a, bj, p) == Distance(a, bj) >= FarDist(a, bj, p)

\* the pair is in close range
InCloseRange(dist, close_dist) == dist < close_dist

\* the unit vector from a to bj
Direction(a, bj, dist) ==
  [x |-> Div(bj.x - a.x, dist), y |-> Div(bj.y - a.y, dist), z |-> Div(bj.z - a.z, dist)]

\* close range: hard repulsion and thermal separation of the pair pr
Repelled(pr, p, n, mr, overlap) ==
  LET force == Mul(overlap, p.repulsion_strength)
      temp_diff == pr.a.temperature - pr.b.temperature
      sep == IF Abs(temp_diff) > 1000
             THEN Mul(Mul(temp_diff, overlap), p.thermal_separation) ELSE 0
  IN  [a |-> [pr.a EXCEPT !.vx = @ - Mul(Mul(n.x, force), S - mr),
                          !.vy = @ - Mul(Mul(n.y, force), S - mr) + sep,
                          !.vz = @ - Mul(Mul(n.z, force), S - mr)],
       b |-> [pr.b EXCEPT !.vx = @ + Mul(Mul(n.x, force), mr),
                          !.vy = @ + Mul(Mul(n.y, force), mr) - sep,
                          !.vz = @ + Mul(Mul(n.z, force), mr)]]

\* the close-range block
CloseRange(pr, p, n, mr, dist, close_dist) ==
  IF InCloseRange(dist, close_dist)
  THEN Repelled(pr, p, n, mr, Div(close_dist - dist, close_dist))
  ELSE pr

\* fault variant: the falloff measured over the whole far distance
WeightFromCentre(dist, close_dist, far_dist) ==
  Max(0, Min(S, Div(far_dist - dist, far_dist + 10)))

\* t: the falloff weight from close_dist to far_dist, clamped to [0, 1]
Weight(dist, close_dist, far_dist) ==
  Max(0, Min(S, Div(far_dist - dist, far_dist - close_dist + 10)))

\* t2: the squared falloff from close_dist to far_dist
Falloff(dist, close_dist, far_dist) ==
  Mul(Weight(dist, close_dist, far_dist), Weight(dist, close_dist, far_dist))

\* medium range (a): positional repulsion
Displaced(pr, p, dt, n, mr, t2) ==
  LET pos_force == Mul(Mul(t2, p.displacement_strength), 3000)
  IN  [a |-> [pr.a EXCEPT
                !.vx = @ - Mul(Mul(Mul(n.x, pos_force), S - mr), dt),
                !.vy = @ - Mul(Mul(Mul(Mul(n.y, pos_force), S - mr), dt), 3000),
                !.vz = @ - Mul(Mul(Mul(n.z, pos_force), S - mr), dt)],
       b |-> [pr.b EXCEPT
                !.vx = @ + Mul(Mul(Mul(n.x, pos_force), mr), dt),
                !.vy = @ + Mul(Mul(Mul(Mul(n.y, pos_force), mr), dt), 3000),
                !.vz = @ + Mul(Mul(Mul(n.z, pos_force), mr), dt)]]

\* the closing speed of the pair along n
Approach(pr, n) ==
  -(Mul(pr.b.vx - pr.a.vx, n.x) + Mul(pr.b.vy - pr.a.vy, n.y)
    + Mul(pr.b.vz - pr.a.vz, n.z))

\* the lateral push of size deflect along (lat_x, 0, lat_z)
Pushed(pr, mr, lat_x, lat_z, deflect) ==
  [a |-> [pr.a EXCEPT !.vx = @ - Mul(Mul(lat_x, deflect), S - mr),
                      !.vz = @ - Mul(Mul(lat_z, deflect), S - mr)],
   b |-> [pr.b EXCEPT !.vx = @ + Mul(Mul(lat_x, deflect), mr),
                      !.vz = @ + Mul(Mul(lat_z, deflect), mr)]]

\* fault variant: the perpendicular used as it is, whatever its length
LateralAsIs(n, lat_len, s) ==
  IF lat_len < 100
  THEN [x |-> Cos(Uniform(0, TwoPi, s)), z |-> Sin(Uniform(0, TwoPi, s))]
  ELSE [x |-> -n.z, z |-> n.x]

\* the lateral direction (lat_x, lat_z) for the unit vector n of a pair whose
\* horizontal perpendicular has length lat_len: a direction drawn from the rng
\* when lat_len < 0.01
Lateral(n, lat_len, s) ==
  IF lat_len < 100
  THEN [x |-> Cos(Uniform(0, TwoPi, s)), z |-> Sin(Uniform(0, TwoPi, s))]
  ELSE [x |-> Div(-n.z, lat_len), z |-> Div(n.x, lat_len)]

\* medium range (b): lateral deflection of an approaching pair; a vertical
\* connection axis takes its lateral direction from one rng draw.  pushed and
\* lat tell whether the pair was deflected and along which direction
Deflected(pr, p, n, mr, t2, lat_len, s) ==
  IF Approach(pr, n) <= 100
  THEN [a |-> pr.a, b |-> pr.b, rng |-> s, pushed |-> FALSE, lat |-> [x |-> 0, z |-> 0]]
  ELSE LET deflect == Mul(Mul(Approach(pr, n), t2), p.approach_deflection)
           q == Pushed(pr, mr, Lateral(n, lat_len, s).x, Lateral(n, lat_len, s).z,
                       deflect)
       IN  [a |-> q.a, b |-> q.b, rng |-> IF lat_len < 100 THEN RngNext(s) ELSE s,
            pushed |-> TRUE, lat |-> Lateral(n, lat_len, s)]

\* fault variant: the medium-range block entered only by a pair that is not in
\* close range
InteractTwoTier(a, bj, p, dt, s, n, mr, dist, close_dist, far_dist) ==
  IF InCloseRange(dist, close_dist)
  THEN [a |-> CloseRange([a |-> a, b |-> bj], p, n, mr, dist, close_dist).a,
        b |-> CloseRange([a |-> a, b |-> bj], p, n, mr, dist, close_dist).b,
        rng |-> s, pushed |-> FALSE, lat |-> [x |-> 0, z |-> 0]]
  ELSE Deflected(Displaced([a |-> a, b |-> bj], p, dt, n, mr,
                           Falloff(dist, close_dist, far_dist)),
                 p, n, mr, Falloff(dist, close_dist, far_dist),
                 Hypot(-n.z, 0, n.x), s)

\* the body of the inner loop for a pair at distance dist that is not skipped
Interact(a, bj, p, dt, s, n, mr, dist, close_dist, far_dist) ==
  Deflected(Displaced(CloseRange([a |-> a, b |-> bj], p, n, mr, dist, close_dist),
                      p, dt, n, mr, Falloff(dist, close_dist, far_dist)),
            p, n, mr, Falloff(dist, close_dist, far_dist), Hypot(-n.z, 0, n.x), s)

\* the body of the inner loop for the pair (a, bj), from rng state s
PairForces(a, bj, p, dt, s) ==
  IF Skipped(a, bj, p)
  THEN [a |-> a, b |-> bj, rng |-> s, pushed |-> FALSE, lat |-> [x |-> 0, z |-> 0]]
  ELSE Interact(a, bj, p, dt, s, Direction(a, bj, Distance(a, bj)),
                MassRatio(a.mass, bj.mass), Distance(a, bj), CloseDist(a, bj),
                FarDist(a, bj, p))

\* one evaluation of the inner loop body: the pair and the rng state before
\* (a0, b0, s0) and after (r.a, r.b, r.rng), and the lateral direction of the
\* deflection where there was one
Evaluation(a0, b0, s0, r) ==
  [a0 |-> a0, b0 |-> b0, s0 |-> s0, a1 |-> r.a, b1 |-> r.b, s1 |-> r.rng,
   pushed |-> r.pushed, lat |-> r.lat]

RECURSIVE PairLoop(_, _, _, _, _, _, _)
\* fault variant: the change to the first blob of the pair is not kept for the
\* pairs that follow
PairStepSecondOnly(bs, i, j, p, dt, s, log, r) ==
  PairLoop([bs EXCEPT ![j] = r.b], i, j + 1, p, dt, r.rng,
           Append(log, Evaluation(bs[i], bs[j], s, r)))

\* the loops continued after the evaluation r of pair (i, j)
PairStep(bs, i, j, p, dt, s, log, r) ==
  PairLoop([bs EXCEPT ![i] = r.a, ![j] = r.b], i, j + 1, p, dt, r.rng,
           Append(log, Evaluation(bs[i], bs[j], s, r)))

\* the loops over i and j > i, from pair (i, j) on; log collects the evaluations
PairLoop(bs, i, j, p, dt, s, log) ==
  IF i > Len(bs) THEN [blobs |-> bs, rng |-> s, log |-> log]
  ELSE IF j > Len(bs) THEN PairLoop(bs, i + 1, i + 2, p, dt, s, log)
  ELSE PairStep(bs, i, j, p, dt, s, log, PairForces(bs[i], bs[j], p, dt, s))

_inter_blob_forces(bs, p, dt, s) == PairLoop(bs, 1, 2, p, dt, s, <<>>)

\* the loop over the blobs, from blob k on; evs collects what happened to each
RECURSIVE BlobLoop(_, _, _, _, _, _, _, _)
\* the loop continued after the iteration r of blob k
BlobStep(bs, h, k, p, dt, eff, evs, r) ==
  BlobLoop([bs EXCEPT ![k] = r.b], h, k + 1, p, dt, eff, r.rng, Append(evs, r.ev))

BlobLoop(bs, h, k, p, dt, eff, s, evs) ==
  IF k > Len(bs) THEN [blobs |-> bs, rng |-> s, evs |-> evs]
  ELSE BlobStep(bs, h, k, p, dt, eff, evs,
                StepBlob(bs[k], h[bs[k].wax], p, dt, eff, s))

\* ------------------------------------------------------------------------
\* step: what raises.  A float division by zero raises ZeroDivisionError and
\* math.sqrt of a negative number raises ValueError; the operators below tell,
\* site by site, whether step raises.  Each is evaluated only if no earlier
\* site raised, as in the code.
\* ------------------------------------------------------------------------
\* a division that is evaluated, by a divisor that is zero
Divides(evaluated, divisor) == evaluated /\ divisor = 0

\* fault variant: the guard of warmup_fraction lets a duration of zero through
WarmupRaisesAtZero(p) == Divides(~(p.warmup_duration < 0), p.warmup_duration)

\* warmup_time / warmup_duration in warmup_fraction
WarmupRaises(p) == Divides(~(p.warmup_duration <= 0), p.warmup_duration)

\* base_buoy_max / max(w.density, 0.1)
BuoyancyRaises(w) == Divides(TRUE, Max(w.density, 1000))

\* b.y / p.heat_zone in the heat transfer block
HeatRaises(b, p, eff) == Divides(b.y < p.heat_zone /\ eff > 100, p.heat_zone)

\* (b.y - p.cool_zone) / (1.0 - p.cool_zone) in the cooling block
CoolRaises(b, p) == Divides(b.y > p.cool_zone, S - p.cool_zone)

\* melt_frac and its square root in the buoyancy block, at temperature temp:
\* melt_frac is negative if its divisor is
MeltRaises(p, temp) ==
  \/ Divides(temp > p.melt_temp, S - p.melt_temp)
  \/ temp > p.melt_temp /\ S - p.melt_temp < 0

\* the launch kick divided by max(w.viscosity, 0.1), for a blob b past the
\* expansion block
KickRaises(b, w, p) == Divides(Melts(b, p, b.temperature), Max(w.viscosity, 1000))

\* b.x / hr and b.z / hr in the wall block, for a blob b past the position update
WallRaises(b, p) == Divides(WallHit(b, p), Hypot(b.x, 0, b.z))

\* the blob as it reaches the wall block, from the blob b past the expansion
AtWall(b, w, p, dt, s) ==
  Moved(Forced(Launched(b, w, p, s), w, p, dt,
               IF Melts(b, p, b.temperature) THEN RngNext(s) ELSE s), dt)

\* the blocks after the expansion, for a blob b past the expansion
RaisesLate(b, w, p, dt, s) ==
  \/ MeltRaises(p, b.temperature)
  \/ KickRaises(b, w, p)
  \/ WallRaises(AtWall(b, w, p, dt, s), p)

\* one iteration of the loop over the blobs raises
BlobRaises(b, w, p, dt, eff, s) ==
  \/ BuoyancyRaises(w)
  \/ HeatRaises(b, p, eff)
  \/ CoolRaises(b, p)
  \/ RaisesLate(Expanded(Heated(b, w, p, dt, eff), w), w, p, dt, s)

\* the loop over the blobs raises at blob k or later (from rng state s)
RECURSIVE LoopRaises(_, _, _, _, _, _, _)
LoopRaises(bs, h, k, p, dt, eff, s) ==
  IF k > Len(bs) THEN FALSE
  ELSE IF BlobRaises(bs[k], h[bs[k].wax], p, dt, eff, s) THEN TRUE
  ELSE LoopRaises(bs, h, k + 1, p, dt, eff,
                  StepBlob(bs[k], h[bs[k].wax], p, dt, eff, s).rng)

\* lat_x / lat_len and lat_z / lat_len for the unit vector n of a pair; the
\* code evaluates them for approaching pairs only, the model for every pair
LateralRaises(n) ==
  Divides(~(Hypot(-n.z, 0, n.x) < 100), Hypot(-n.z, 0, n.x))

\* the divisions of the inner loop body for a pair (a, bj) that is not skipped:
\* by dist, by the sum of the masses, by close_dist, by the falloff range, by
\* lat_len
InteractRaises(a, bj, dist, close_dist, far_dist) ==
  \/ Divides(TRUE, dist)
  \/ Divides(TRUE, a.mass + bj.mass)
  \/ Divides(InCloseRange(dist, close_dist), close_dist)
  \/ Divides(TRUE, far_dist - close_dist + 10)
  \/ LateralRaises(Direction(a, bj, dist))

\* the inner loop body raises for the pair (a, bj); the pass changes velocities
\* only, so the positions and radii are those the loop over the blobs left
PairRaises(a, bj, p) ==
  /\ ~Skipped(a, bj, p)
  /\ InteractRaises(a, bj, Distance(a, bj), CloseDist(a, bj), FarDist(a, bj, p))

\* _inter_blob_forces raises on the blobs bs
PairsRaise(bs, p) ==
  \E i \in DOMAIN bs : \E j \in DOMAIN bs : i < j /\ PairRaises(bs[i], bs[j], p)

\* step(dt) raises from the engine state (bs, h, p, t, s)
StepRaises(bs, h, p, t, s, dt) ==
  \/ WarmupRaises(p)
  \/ LoopRaises(bs, h, 1, p, dt, effective_heat(p, t + dt), s)
  \/ PairsRaise(BlobLoop(bs, h, 1, p, dt, effective_heat(p, t + dt), s, <<>>).blobs, p)

\* ------------------------------------------------------------------------
\* Renderer (src/lavalamp/renderer.py).  Colour channels are 0..255; inside
\* the float computations a channel value v is the fixed-point number v * S.
\* A pixel is <<py, px>> (row, column); an image maps each pixel to
\* <<red, green, blue, alpha>>.
\* ------------------------------------------------------------------------
ColorScheme(name, base, hot, liquid, bg, contrast) ==
  [name |-> name, base |-> base, hot |-> hot, liquid |-> liquid, bg |-> bg,
   contrast |-> contrast]

\* SCHEMES["classic"] and SCHEMES["ocean_fire"]
SchemeClassic ==
  ColorScheme("Classic Red", <<180, 30, 10>>, <<255, 180, 40>>, <<45, 15, 8>>,
              <<20, 8, 5>>, None)
SchemeOceanFire ==
  ColorScheme("Ocean & Fire", <<20, 60, 180>>, <<100, 200, 255>>, <<8, 15, 40>>,
              <<4, 8, 20>>, <<200, 60, 10>>)

\* fault variant: the render size rounded to the nearest integer
RenderSizeRounded(n, render_scale) == Max(4, (n * render_scale + S \div 2) \div S)

\* rw, rh: max(4, int(n * render_scale)) for n = width, height
RenderSize(n, render_scale) == Max(4, (n * render_scale) \div S)

Pixels(rw, rh) == (0..(rh - 1)) \X (0..(rw - 1))

\* y01 of row py
Y01(py, rh) == (py * S) \div rh

\* x01 of column px, also gx of the glow pass
X01(px, rw) == ((px * S) \div rw - 5000) * 2

\* lamp_radius(y01): the half-width of the lamp at height y01
lamp_radius(y01) ==
  LET bulge == S + Mul(600, Sin(Mul(y01, Pi)))
      taper == IF y01 > 9500 THEN Div(S - y01, 500)
               ELSE IF y01 < 500 THEN Div(y01, 500)
               ELSE S
  IN  Mul(Mul(4600, bulge), Max(taper, 3000))

inside_lamp(x01, lamp_r) == Abs(x01) < lamp_r * 2

\* r2 of blob b: the square of its projected radius
ProjectedR2(b) ==
  LET depth_factor == Div(S, S + Mul(b.z, 3000))
      proj_r == Mul(Mul(b.radius, depth_factor), 3 * S)
  IN  Mul(proj_r, proj_r)

\* dist2 of blob b at the point (x01, blob_y)
Dist2(b, x01, blob_y) ==
  LET dx == x01 - b.x * 2
      dy == blob_y - b.y
  IN  Mul(dx, dx) + Mul(dy, dy)

\* the contribution of a blob with squared projected radius r2 at squared
\* distance dist2
Contribution(r2, dist2) == IF dist2 < r2 * 9 THEN Div(r2, dist2 + 10) ELSE 0

\* fault variant: the size of a blob taken from its warm radius
ContributionsOfWarm(bs, x01, blob_y) ==
  [k \in DOMAIN bs |->
     Contribution(ProjectedR2([bs[k] EXCEPT !.radius = bs[k].warm_radius]),
                  Dist2(bs[k], x01, blob_y))]

\* the contributions of the blobs bs at the point (x01, blob_y), in list order
Contributions(bs, x01, blob_y) ==
  [k \in DOMAIN bs |-> Contribution(ProjectedR2(bs[k]), Dist2(bs[k], x01, blob_y))]

RECURSIVE SeqSum(_)
SeqSum(s) == IF s = <<>> THEN 0 ELSE Head(s) + SeqSum(Tail(s))

\* weighted_temp: the temperatures of the blobs weighted by the contributions cs
WeightedTemp(bs, cs) == SeqSum([k \in DOMAIN bs |-> Mul(bs[k].temperature, cs[k])])

\* temp: weighted_temp / max(total_weight, 1e-10) where total_weight > 0 (large
\* operands are scaled down first so that the quotient stays in 32 bits)
PixelTemp(weighted_temp, total_weight) ==
  IF total_weight <= 0 THEN 0
  ELSE IF total_weight < 100000 THEN Div(weighted_temp, total_weight)
  ELSE Div(weighted_temp \div 1000, total_weight \div 1000)

\* shade: darker towards the horizontal edges
Shade(x01, lamp_r) ==
  LET edge_dist == Div(Abs(x01), Max(lamp_r * 2, 100))
  IN  S - Mul(Mul(edge_dist, edge_dist), 4000)

\* spec_pow: the specular highlight on the left side
SpecPow(x01, lamp_r) ==
  LET spec == Max(0, S - Div(Abs(x01 + Mul(lamp_r, 6000)), Max(Mul(lamp_r, 8000), 100)))
  IN  Mul(Mul(Mul(spec, spec), spec), 3000)

\* np.clip(v, 0, 255).astype(np.uint8) of a channel value v
U8(v) == Max(0, Min(255 * S, v)) \div S

\* one channel of wax_rgb_u8: base and hot are the channel of the scheme, lift
\* and gloss the channel of the brightening and of the highlight
WaxChannel(base, hot, lift, gloss, temp, field, shade, spec_pow) ==
  LET bright == Max(0, Min(S, Mul(field - S, 5000)))
      mixed == base * S + Mul((hot - base) * S, temp)
      lit == Min(255 * S, mixed + Mul(bright, lift * S))
  IN  U8(Min(255 * S, Mul(lit, shade) + Mul(spec_pow, gloss * S)))

\* one channel of liq_rgb_u8
LiquidChannel(liq, base, field, shade) ==
  LET glow == Max(0, Min(S, Mul(field, 3000)))
  IN  U8(Mul(liq * S + Mul(Mul(glow, base * S), 3000), shade))

\* the pixel before the cap overlay, from the field, the temperature, the
\* shading and the highlight at the pixel
Coloured(scheme, inside, field, temp, shade, spec_pow) ==
  IF field > S /\ inside
  THEN <<WaxChannel(scheme.base[1], scheme.hot[1], 50, 200, temp, field, shade, spec_pow),
         WaxChannel(scheme.base[2], scheme.hot[2], 60, 150, temp, field, shade, spec_pow),
         WaxChannel(scheme.base[3], scheme.hot[3], 30, 80, temp, field, shade, spec_pow),
         255>>
  ELSE IF inside
  THEN <<LiquidChannel(scheme.liquid[1], scheme.base[1], field, shade),
         LiquidChannel(scheme.liquid[2], scheme.base[2], field, shade),
         LiquidChannel(scheme.liquid[3], scheme.base[3], field, shade),
         255>>
  ELSE <<0, 0, 0, 0>>

\* the pixel before the cap overlay, from the contributions cs of the blobs
Summed(bs, scheme, x01, lamp_r, cs) ==
  Coloured(scheme, inside_lamp(x01, lamp_r), SeqSum(cs),
           PixelTemp(WeightedTemp(bs, cs), SeqSum(cs)),
           Shade(x01, lamp_r), SpecPow(x01, lamp_r))

\* the pixel at (x01, blob_y) before the cap overlay
Shaded(bs, scheme, x01, blob_y) ==
  Summed(bs, scheme, x01, lamp_radius(blob_y), Contributions(bs, x01, blob_y))

\* is_wax at (x01, blob_y)
IsWax(bs, x01, blob_y) ==
  /\ SeqSum(Contributions(bs, x01, blob_y)) > S
  /\ inside_lamp(x01, lamp_radius(blob_y))

\* the rows of the bottom heat glow start at rh - int(rh * 0.15)
GlowRows(rh) == (rh * 1500) \div S

\* gdist of the pixel <<py, px>> of a glow row
GlowDist(py, px, rw, rh) ==
  LET gy == ((py - (rh - GlowRows(rh))) * S) \div Max(GlowRows(rh), 1)
      gx == X01(px, rw)
  IN  Mul(gx, gx) + Mul(Mul(gy, gy), 5000)

\* one channel after the glow: min(255, int(channel + base * ga))
Glowing(channel, base, ga) == Min(255, (channel * S + Mul(base * S, ga)) \div S)

\* fault variant: the glow laid over transparent pixels as well
GlowPixelEverywhere(pixel, base, glow_alpha, gdist) ==
  IF gdist < S
  THEN <<Glowing(pixel[1], base[1], Mul(glow_alpha, S - gdist)),
         Glowing(pixel[2], base[2], Mul(glow_alpha, S - gdist)),
         Glowing(pixel[3], base[3], Mul(glow_alpha, S - gdist)),
         pixel[4]>>
  ELSE pixel

\* the body of the loops of the bottom heat glow for a pixel at gdist
GlowPixel(pixel, base, glow_alpha, gdist) ==
  IF gdist < S /\ pixel[4] > 0
  THEN <<Glowing(pixel[1], base[1], Mul(glow_alpha, S - gdist)),
         Glowing(pixel[2], base[2], Mul(glow_alpha, S - gdist)),
         Glowing(pixel[3], base[3], Mul(glow_alpha, S - gdist)),
         pixel[4]>>
  ELSE pixel

\* img before the cap overlay
Painted(bs, scheme, rw, rh) ==
  [q \in Pixels(rw, rh) |-> Shaded(bs, scheme, X01(q[2], rw), S - Y01(q[1], rh))]

\* img after the bottom heat glow, from img before it
Overlaid(pre, scheme, warmup, rw, rh) ==
  [q \in Pixels(rw, rh) |->
     IF q[1] >= Max(0, rh - GlowRows(rh))
     THEN GlowPixel(pre[q], scheme.base, 300 + Mul(warmup, 1800),
                    GlowDist(q[1], q[2], rw, rh))
     ELSE pre[q]]

\* the call render_frame(engine, scheme, width, height, render_scale) and what
\* it computed: is_wax, img before the cap overlay (pre) and the img returned
Frame(bs, warmup, scheme, width, height, render_scale, rw, rh, pre) ==
  [width |-> width, height |-> height, render_scale |-> render_scale,
   scheme |-> scheme, rw |-> rw, rh |-> rh,
   is_wax |-> [q \in Pixels(rw, rh) |->
                 IsWax(bs, X01(q[2], rw), S - Y01(q[1], rh))],
   pre |-> pre,
   img |-> Overlaid(pre, scheme, warmup, rw, rh)]

\* render_frame on the blobs bs of an engine with warm-up fraction warmup
Rendered(bs, warmup, scheme, width, height, render_scale) ==
  Frame(bs, warmup, scheme, width, height, render_scale,
        RenderSize(width, render_scale), RenderSize(height, render_scale),
        Painted(bs, scheme, RenderSize(width, render_scale),
                RenderSize(height, render_scale)))

\* ------------------------------------------------------------------------
\* State
\* ------------------------------------------------------------------------
VARIABLES
  blobs,        \* LavaLampEngine.blobs: sequence of Blob records
  warmup_time,  \* LavaLampEngine.warmup_time
  blob_count,   \* LavaLampEngine._blob_count
  rng,          \* state of LavaLampEngine.rng
  params,       \* LavaLampEngine.params
  heap,         \* the WaxType objects: 1..NumPresets are the entries of WAX_TYPES
  last,         \* history: the operation that led here and its arguments
  mid,          \* history: the blobs of the last step between its two loops
  ev,           \* history: what the loop over the blobs of the last step did to each
  pairs,        \* history: the pair evaluations of the last step, in order
  detachedAt,   \* history: warmup_time at which each blob first detached, or -1
  nops,         \* history: operations counted against the budget MaxOps
  twin,         \* a second engine, constructed and driven like the first
  frame         \* the last call of render_frame: its arguments and its image

vars == <<blobs, warmup_time, blob_count, rng, params, heap, last, mid, ev,
          pairs, detachedAt, nops, twin, frame>>

engine == <<blobs, warmup_time, blob_count, rng, params, heap>>

\* b.wax dereferenced
Wax(b) == heap[b.wax]

Never(n) == [k \in 1..n |-> -1]

\* the record of an operation without index: no error, no material replaced
Did(op, arg) == [op |-> op, arg |-> arg, idx |-> 0, err |-> FALSE, was |-> 0]

\* ------------------------------------------------------------------------
\* Inputs tried by the model
\* ------------------------------------------------------------------------
\* LavaLampEngine(blob_count, params, seed): the constructions explored
Constructions ==
  {<<1, FastWarmup, 1>>, <<MaxCount, FastWarmup, 2>>, <<1, PhysicsParams, 2>>}
\* dt: a 30 fps frame and a long pause (above the clamp value)
StepDts == {330, 2000}
\* the drag-to-stir cap of the canvas and a violent shake
StirStrengths == {5000, 200000}
HeatStrengths == {3000, 9000}
\* a known preset and a key that is in no table
WaxKeys == {"volatile", "beeswax"}
\* blob indexes: negative, valid, and at or past the end of the list
WaxIndexes == {-1, 0, 1, 2, MaxBlobs}
\* density, heat_sensitivity, viscosity, expansion: the ends of the sliders
CustomChoices == {<<3000, 2000, 2000, 3000>>, <<25000, 30000, 30000, 25000>>}
\* reset() and reset(blob_count)
ResetChoices == {<<FALSE, 0>>, <<TRUE, 1>>, <<TRUE, MaxCount>>}

\* ------------------------------------------------------------------------
\* Operations
\* ------------------------------------------------------------------------
\* reset(blob_count); given = FALSE is reset() with blob_count = None
reset(given, count) ==
  LET c == IF given THEN count ELSE blob_count
  IN  /\ blob_count' = c
      /\ warmup_time' = 0
      /\ blobs' = _create_blobs(c, params.cold_radius_fraction, rng)
      /\ rng' = Advance(rng, 4 * c)
      /\ heap' = ResetHeap(heap, c)
      /\ mid' = blobs'
      /\ ev' = <<>>
      /\ pairs' = <<>>
      /\ detachedAt' = Never(c + 1)
      /\ last' = Did("reset", c)
      /\ UNCHANGED params

\* LavaLampEngine(blob_count, params, seed) as a value: the fields of the engine
\* and the objects its blobs refer to
LavaLampEngine(count, p, seed) ==
  [blobs |-> _create_blobs(count, p.cold_radius_fraction, default_rng(seed)),
   warmup_time |-> 0,
   blob_count |-> count,
   rng |-> Advance(default_rng(seed), 4 * count),
   params |-> p,
   heap |-> ResetHeap([id \in WaxIds |->
                         IF id <= NumPresets
                         THEN WAX_TYPES_INIT[WAX_TYPE_NAMES[id]] ELSE FreeWax],
                      count)]

\* no frame has been rendered yet
NoFrame == [width |-> 0, height |-> 0, render_scale |-> 0]

\* LavaLampEngine(blob_count, params, seed): the state after construction
Construct(count, p, seed) ==
    /\ params = p
    /\ blob_count = count
    /\ warmup_time = 0
    /\ blobs = _create_blobs(count, p.cold_radius_fraction, default_rng(seed))
    /\ rng = Advance(default_rng(seed), 4 * count)
    /\ heap = ResetHeap([id \in WaxIds |->
                           IF id <= NumPresets
                           THEN WAX_TYPES_INIT[WAX_TYPE_NAMES[id]] ELSE FreeWax],
                        count)
    /\ mid = blobs
    /\ ev = <<>>
    /\ pairs = <<>>
    /\ detachedAt = Never(count + 1)
    /\ last = Did("init", count)
    /\ nops = 0
    /\ twin = LavaLampEngine(count, p, seed)
    /\ frame = NoFrame

Init == \E c \in Constructions : Construct(c[1], c[2], c[3])

\* fault variant: step without the clamp of dt
stepUnclamped(dt) ==
  LET wt == warmup_time + dt
      eff == effective_heat(params, wt)
  IN  \E r1 \in {BlobLoop(blobs, heap, 1, params, dt, eff, rng, <<>>)} :
      \E r2 \in {_inter_blob_forces(r1.blobs, params, dt, r1.rng)} :
        /\ warmup_time' = wt
        /\ blobs' = r2.blobs
        /\ rng' = r2.rng
        /\ mid' = r1.blobs
        /\ ev' = r1.evs
        /\ pairs' = r2.log
        /\ detachedAt' = [k \in DOMAIN detachedAt |->
                            IF detachedAt[k] < 0 /\ r1.evs[k].melted THEN wt
                            ELSE detachedAt[k]]
        /\ last' = Did("step", dt)
        /\ UNCHANGED <<blob_count, params, heap>>

\* step(dt).  The results of the two loops are bound by \E over a singleton, so
\* that each loop is evaluated once.
step(dt) ==
  LET d == Min(dt, 500)
      wt == warmup_time + d
      eff == effective_heat(params, wt)
  IN  \E r1 \in {BlobLoop(blobs, heap, 1, params, d, eff, rng, <<>>)} :
      \E r2 \in {_inter_blob_forces(r1.blobs, params, d, r1.rng)} :
        /\ warmup_time' = wt
        /\ blobs' = r2.blobs
        /\ rng' = r2.rng
        /\ mid' = r1.blobs
        /\ ev' = r1.evs
        /\ pairs' = r2.log
        /\ detachedAt' = [k \in DOMAIN detachedAt |->
                            IF detachedAt[k] < 0 /\ r1.evs[k].melted THEN wt
                            ELSE detachedAt[k]]
        /\ last' = Did("step", dt)
        /\ UNCHANGED <<blob_count, params, heap>>

\* step(dt) as its caller sees it: it completes, or it raises.  The exception
\* leaves step after warmup_time was advanced; the model records it in last.err
\* and does not follow the blobs the interrupted loop has left.
step_or_raise(dt) ==
  IF StepRaises(blobs, heap, params, warmup_time, rng, Min(dt, 500))
  THEN /\ warmup_time' = warmup_time + Min(dt, 500)
       /\ last' = [Did("step", dt) EXCEPT !.err = TRUE]
       /\ UNCHANGED <<blobs, blob_count, rng, params, heap, mid, ev, pairs,
                      detachedAt>>
  ELSE step(dt)

\* the warm-up slider of the control panel moved to v seconds
set_warmup_duration(v) ==
  /\ params' = [params EXCEPT !.warmup_duration = v]
  /\ last' = Did("set_warmup_duration", v)
  /\ UNCHANGED <<blobs, warmup_time, blob_count, rng, heap, mid, ev, pairs,
                 detachedAt>>

\* fault variant: a render that draws from the generator of the engine
render_frameDrawing(scheme, width, height, render_scale) ==
  /\ frame' = Rendered(blobs, warmup_fraction(params, warmup_time), scheme,
                       width, height, render_scale)
  /\ rng' = RngNext(rng)
  /\ last' = Did("render_frame", <<width, height, render_scale>>)
  /\ UNCHANGED <<blobs, warmup_time, blob_count, params, heap, mid, ev,
                 pairs, detachedAt>>

\* render_frame(engine, scheme, width, height, render_scale)
render_frame(scheme, width, height, render_scale) ==
  /\ frame' = Rendered(blobs, warmup_fraction(params, warmup_time), scheme,
                       width, height, render_scale)
  /\ last' = Did("render_frame", <<width, height, render_scale>>)
  /\ UNCHANGED <<blobs, warmup_time, blob_count, rng, params, heap, mid, ev,
                 pairs, detachedAt>>

\* fault variant: the vertical impulse drawn from the lateral range
StirBlobFullVertical(b, k, strength, s) ==
  LET s0 == Advance(s, 3 * (k - 1))
      s1 == RngNext(s0)
      s2 == RngNext(s1)
  IN  [b EXCEPT !.vx = @ + Mul(Uniform(-S, S, s0), strength),
                !.vz = @ + Mul(Uniform(-S, S, s1), strength),
                !.vy = @ + Mul(Uniform(-S, S, s2), strength)]

\* the body of the loop of stir for blob k (1-based): draws 3k-2, 3k-1, 3k
StirBlob(b, k, strength, s) ==
  LET s0 == Advance(s, 3 * (k - 1))
      s1 == RngNext(s0)
      s2 == RngNext(s1)
  IN  [b EXCEPT !.vx = @ + Mul(Uniform(-S, S, s0), strength),
                !.vz = @ + Mul(Uniform(-S, S, s1), strength),
                !.vy = @ + Mul(Uniform(-3000, 3000, s2), strength)]

\* stir(strength)
stir(strength) ==
  /\ blobs' = [k \in DOMAIN blobs |-> StirBlob(blobs[k], k, strength, rng)]
  /\ rng' = Advance(rng, 3 * Len(blobs))
  /\ mid' = blobs'
  /\ ev' = <<>>
  /\ pairs' = <<>>
  /\ last' = Did("stir", strength)
  /\ UNCHANGED <<warmup_time, blob_count, params, heap, detachedAt>>

\* fault variant: the boost without the clamp at 1.0
HeatBlobNoClamp(b, strength) == [b EXCEPT !.temperature = @ + strength]

\* the body of the loop of heat_burst
HeatBlob(b, strength) == [b EXCEPT !.temperature = Min(S, @ + strength)]

\* heat_burst(strength)
heat_burst(strength) ==
  /\ blobs' = [k \in DOMAIN blobs |-> HeatBlob(blobs[k], strength)]
  /\ mid' = blobs'
  /\ ev' = <<>>
  /\ pairs' = <<>>
  /\ last' = Did("heat_burst", strength)
  /\ UNCHANGED <<warmup_time, blob_count, rng, params, heap, detachedAt>>

\* ------------------------------------------------------------------------
\* Material changes.  A blob holds a reference (an id of heap) to its WaxType.
\* ------------------------------------------------------------------------
\* objects no blob refers to any more are collected
Collect(h, bs) ==
  [id \in WaxIds |->
     IF id <= NumPresets \/ (\E k \in DOMAIN bs : bs[k].wax = id)
     THEN h[id] ELSE FreeWax]

\* fault variant: the guard without its lower bound
IndexOkNoLower(index) == index < Len(blobs)

\* the guard of the material setters (index is 0-based, as in the source)
IndexOk(index) == 0 <= index /\ index < Len(blobs)

\* self.blobs[index] is an element of the list (else it raises IndexError)
InList(bs, index) == -Len(bs) <= index /\ index < Len(bs)

\* the position of self.blobs[index] in the sequence; a negative index counts
\* from the end of the list
ListIndex(bs, index) == IF index < 0 THEN Len(bs) + index + 1 ELSE index + 1

\* blobs and heap after self.blobs[index].wax = WAX_TYPES[wax_type]
AssignPreset(bs, h, index, wax_type) ==
  LET nb == [bs EXCEPT ![ListIndex(bs, index)].wax = WAX_TYPES[wax_type]]
  IN  [blobs |-> nb, heap |-> Collect(h, nb)]

\* fault variant: the custom values written into the object the blob refers to
AssignCustomInPlace(bs, h, index, c) ==
  [blobs |-> bs,
   heap |-> [h EXCEPT ![bs[ListIndex(bs, index)].wax] =
                        WaxType("Custom", c[1], c[2], c[3], c[4])]]

\* blobs and heap after self.blobs[index].wax = WaxType(name="Custom", ...)
AssignCustom(bs, h, index, c) ==
  LET id == NewWaxId(ListIndex(bs, index))
      nb == [bs EXCEPT ![ListIndex(bs, index)].wax = id]
  IN  [blobs |-> nb,
       heap |-> Collect([h EXCEPT ![id] = WaxType("Custom", c[1], c[2], c[3], c[4])],
                        nb)]

\* the record of a material setter: err tells that it raised, was is the
\* reference the indexed blob held before the call (0 if there is no such blob)
DidSet(op, arg, index, raises) ==
  [op |-> op, arg |-> arg, idx |-> index, err |-> raises,
   was |-> IF InList(blobs, index) THEN blobs[ListIndex(blobs, index)].wax ELSE 0]

\* set_blob_wax(index, wax_type)
set_blob_wax(index, wax_type) ==
  LET assigns == IndexOk(index) /\ wax_type \in DOMAIN WAX_TYPES
      raises == assigns /\ ~InList(blobs, index)
  IN  /\ IF assigns /\ ~raises
         THEN \E r \in {AssignPreset(blobs, heap, index, wax_type)} :
                blobs' = r.blobs /\ heap' = r.heap
         ELSE UNCHANGED <<blobs, heap>>
      /\ mid' = blobs'
      /\ ev' = <<>>
      /\ pairs' = <<>>
      /\ last' = DidSet("set_blob_wax", wax_type, index, raises)
      /\ UNCHANGED <<warmup_time, blob_count, rng, params, detachedAt>>

\* set_blob_wax_custom(index, density, heat_sensitivity, viscosity, expansion)
set_blob_wax_custom(index, c) ==
  LET assigns == IndexOk(index)
      raises == assigns /\ ~InList(blobs, index)
  IN  /\ IF assigns /\ ~raises
         THEN \E r \in {AssignCustom(blobs, heap, index, c)} :
                blobs' = r.blobs /\ heap' = r.heap
         ELSE UNCHANGED <<blobs, heap>>
      /\ mid' = blobs'
      /\ ev' = <<>>
      /\ pairs' = <<>>
      /\ last' = DidSet("set_blob_wax_custom", c, index, raises)
      /\ UNCHANGED <<warmup_time, blob_count, rng, params, detachedAt>>

\* blobs and heap after the loop of ControlPanel._apply_wax_to_all: every blob
\* gets a new WaxType with the values of the wax of the selected blob
CopyToAll(bs, h, blob_idx) ==
  LET nb == [k \in DOMAIN bs |-> [bs[k] EXCEPT !.wax = NewWaxId(k)]]
  IN  [blobs |-> nb,
       heap |-> [id \in WaxIds |->
                   IF id <= NumPresets THEN h[id]
                   ELSE IF id - NumPresets <= Len(bs) THEN h[bs[blob_idx + 1].wax]
                   ELSE FreeWax]]

\* ControlPanel._apply_wax_to_all with blob blob_idx selected
apply_wax_to_all(blob_idx) ==
  /\ IF blob_idx < 0 \/ blob_idx >= Len(blobs)
     THEN UNCHANGED <<blobs, heap>>
     ELSE \E r \in {CopyToAll(blobs, heap, blob_idx)} :
            blobs' = r.blobs /\ heap' = r.heap
  /\ mid' = blobs'
  /\ ev' = <<>>
  /\ pairs' = <<>>
  /\ last' = DidSet("apply_wax_to_all", 0, blob_idx, FALSE)
  /\ UNCHANGED <<warmup_time, blob_count, rng, params, detachedAt>>

\* ------------------------------------------------------------------------
\* Specification: any MaxOps operations on a constructed engine
\* ------------------------------------------------------------------------
Budget == nops < MaxOps /\ nops' = nops + 1

\* the second engine is not driven and nothing is rendered
Solo == UNCHANGED <<twin, frame>>

Reset == Budget /\ Solo /\ reset(TRUE, 1)
Step == Budget /\ Solo /\ \E dt \in StepDts : step(dt)
Stir == Budget /\ Solo /\ \E strength \in StirStrengths : stir(strength)
HeatBurst == Budget /\ Solo /\ \E strength \in HeatStrengths : heat_burst(strength)
SetBlobWax == Budget /\ Solo /\ set_blob_wax(0, "volatile")
SetBlobWaxCustom ==
  Budget /\ Solo /\ \E c \in CustomChoices : set_blob_wax_custom(1, c)

Next == Reset \/ Step \/ Stir \/ HeatBurst \/ SetBlobWax \/ SetBlobWaxCustom

Spec == Init /\ [][Next]_vars

\* ------------------------------------------------------------------------
\* Specification: material changes of any blob, by any index and key
\* ------------------------------------------------------------------------
SetAnyWax ==
  \E index \in WaxIndexes : \E key \in WaxKeys :
    set_blob_wax(index, key) /\ Solo /\ UNCHANGED nops
SetAnyCustom ==
  \E index \in WaxIndexes : \E c \in CustomChoices :
    set_blob_wax_custom(index, c) /\ Solo /\ UNCHANGED nops
ApplyWaxToAll ==
  \E index \in WaxIndexes : apply_wax_to_all(index) /\ Solo /\ UNCHANGED nops

NextWax == SetAnyWax \/ SetAnyCustom \/ ApplyWaxToAll

SpecWax == Init /\ [][NextWax]_vars

\* ------------------------------------------------------------------------
\* Specification: the lamp left running from a cold start, a frame of dt
\* seconds at a time, for MeltHorizon seconds
\* ------------------------------------------------------------------------
MeltDts == {330, 500}

InitMelt == \E count \in {1, MaxCount} : \E seed \in {1, 2} :
              Construct(count, PhysicsParams, seed)

Tick ==
  /\ warmup_time < MeltHorizon * S
  /\ \E dt \in MeltDts : (last.op = "step" => last.arg = dt) /\ step(dt)
  /\ Solo
  /\ UNCHANGED nops

\* the frame timer keeps the lamp running: while the horizon is not reached,
\* warmup_time advances by a frame (within [Tick]_vars, by a Tick step)
Clock ==
  /\ warmup_time < MeltHorizon * S
  /\ warmup_time' \in {warmup_time + Min(dt, 500) : dt \in MeltDts}

SpecMelt == InitMelt /\ [][Tick]_vars /\ WF_warmup_time(Clock)

\* ------------------------------------------------------------------------
\* Specification: the lamp shaken hard and heated while it runs, ShakeOps
\* operations in all, so that blobs are thrown against wall, floor and ceiling
\* ------------------------------------------------------------------------
InitShake == \E count \in {1, MaxCount} : Construct(count, FastWarmup, 1)

Shaking == nops < ShakeOps /\ nops' = nops + 1 /\ Solo

\* one shake at a time: the lamp runs on before it is shaken again
Shake == Shaking /\ last.op # "stir" /\ stir(200000)
ShakeStep == Shaking /\ step(500)
ShakeHeat == Shaking /\ heat_burst(9000)
\* the first blob given a custom material before the lamp is run
ShakeWax ==
  Shaking /\ last.op = "init" /\ \E c \in CustomChoices : set_blob_wax_custom(0, c)

NextShake == Shake \/ ShakeStep \/ ShakeHeat \/ ShakeWax

SpecShake == InitShake /\ [][NextShake]_vars

\* ------------------------------------------------------------------------
\* Specification: a lamp in which the first blob has come to meet the pool:
\* at its centre, straight above it, nearly so or beside it, at rest or sinking,
\* cold or warm; for the ends of the displacement-range control, the default,
\* and ranges at and below the close range; then MeetOps steps
\* ------------------------------------------------------------------------
\* the blob b at the offset (dx, dy, dz) from the blob pool, with vertical
\* velocity vy and the given temperature, not grounded
Offset(b, pool, dx, dy, dz, vy, temperature) ==
  [b EXCEPT !.x = pool.x + dx, !.y = pool.y + dy, !.z = pool.z + dz,
            !.vy = vy, !.temperature = temperature, !.detached = TRUE]

\* the first blob of bs met with the pool (the last one) as g tells; in a lamp of
\* two blobs and the pool the second blob is sinking onto the pool from above
Met(bs, g) ==
  [k \in DOMAIN bs |->
     IF k = 1
     THEN Offset(bs[1], bs[Len(bs)], g.dx, g.dy, g.dz, g.vy, g.temperature)
     ELSE IF k < Len(bs) THEN Offset(bs[k], bs[Len(bs)], 1, 950, 0, -2000, 0)
     ELSE bs[k]]

Meetings ==
  [dx : {0, 1, 5, 300}, dy : {0, 300, 705, 1200}, dz : {0, 300},
   vy : {-2000, 0}, temperature : {0, 1500}]

MeetRanges == {6913, 7000, 10000, 18000, 35000}

MeetDts == {0, 500}

InitMeet ==
  \E g \in Meetings : \E dr \in MeetRanges : \E count \in {1, 2} :
    /\ params = [FastWarmup EXCEPT !.displacement_range = dr]
    /\ blob_count = count
    /\ warmup_time = 0
    /\ blobs = Met(_create_blobs(count, params.cold_radius_fraction, default_rng(1)), g)
    /\ rng = Advance(default_rng(1), 4 * count)
    /\ heap = LavaLampEngine(count, params, 1).heap
    /\ mid = blobs
    /\ ev = <<>>
    /\ pairs = <<>>
    /\ detachedAt = Never(count + 1)
    /\ last = Did("init", count)
    /\ nops = 0
    /\ twin = LavaLampEngine(count, params, 1)
    /\ frame = NoFrame

\* a frame, or a repeated frame (dt = 0); an exception ends the run
MeetStep ==
  /\ ~last.err /\ nops < MeetOps /\ nops' = nops + 1 /\ Solo
  /\ \E dt \in MeetDts : step_or_raise(dt)

SpecMeet == InitMeet /\ [][MeetStep]_vars

\* ------------------------------------------------------------------------
\* The operations as functions of an engine e: a record of the fields blobs,
\* warmup_time, blob_count, rng, params and of the objects (heap) its blobs
\* refer to.  They drive the second engine.
\* ------------------------------------------------------------------------
\* e after the pair pass of step gave r2
StepDone(e, wt, r2) ==
  [e EXCEPT !.warmup_time = wt, !.blobs = r2.blobs, !.rng = r2.rng]

\* e after the loop over the blobs of step gave r1
StepPairs(e, wt, d, r1) ==
  StepDone(e, wt, _inter_blob_forces(r1.blobs, e.params, d, r1.rng))

\* e after step with the clamped dt d
StepClamped(e, d) ==
  StepPairs(e, e.warmup_time + d, d,
            BlobLoop(e.blobs, e.heap, 1, e.params, d,
                     effective_heat(e.params, e.warmup_time + d), e.rng, <<>>))

\* e after step(dt)
Stepped(e, dt) == StepClamped(e, Min(dt, 500))

\* fault variant: reset that starts the random generator afresh
ResetToReseeded(e, given, count) ==
  LET c == IF given THEN count ELSE e.blob_count
  IN  [e EXCEPT !.blob_count = c,
                !.warmup_time = 0,
                !.blobs = _create_blobs(c, e.params.cold_radius_fraction, default_rng(0)),
                !.rng = Advance(default_rng(0), 4 * c),
                !.heap = ResetHeap(e.heap, c)]

\* e after reset(count); given = FALSE is reset()
ResetTo(e, given, count) ==
  LET c == IF given THEN count ELSE e.blob_count
  IN  [e EXCEPT !.blob_count = c,
                !.warmup_time = 0,
                !.blobs = _create_blobs(c, e.params.cold_radius_fraction, e.rng),
                !.rng = Advance(e.rng, 4 * c),
                !.heap = ResetHeap(e.heap, c)]

\* e after stir(strength)
Stirred(e, strength) ==
  [e EXCEPT !.blobs = [k \in DOMAIN e.blobs |->
                         StirBlob(e.blobs[k], k, strength, e.rng)],
            !.rng = Advance(e.rng, 3 * Len(e.blobs))]

\* e after heat_burst(strength)
Burst(e, strength) ==
  [e EXCEPT !.blobs = [k \in DOMAIN e.blobs |-> HeatBlob(e.blobs[k], strength)]]

\* e with the blobs and objects r of a material setter
WaxDone(e, r) == [e EXCEPT !.blobs = r.blobs, !.heap = r.heap]

\* e after set_blob_wax(index, wax_type)
WaxSet(e, index, wax_type) ==
  IF 0 <= index /\ index < Len(e.blobs) /\ wax_type \in DOMAIN WAX_TYPES
  THEN WaxDone(e, AssignPreset(e.blobs, e.heap, index, wax_type))
  ELSE e

\* e after set_blob_wax_custom(index, density, heat_sensitivity, viscosity,
\* expansion)
CustomSet(e, index, c) ==
  IF 0 <= index /\ index < Len(e.blobs)
  THEN WaxDone(e, AssignCustom(e.blobs, e.heap, index, c))
  ELSE e

\* ------------------------------------------------------------------------
\* Specification: two engines constructed alike (same blob count, parameters
\* and seed) and driven by the same TwinOps operations
\* ------------------------------------------------------------------------
Both == nops < TwinOps /\ nops' = nops + 1 /\ UNCHANGED frame

BothReset ==
  Both /\ \E c \in ResetChoices : reset(c[1], c[2]) /\ twin' = ResetTo(twin, c[1], c[2])
BothStep == Both /\ \E dt \in StepDts : step(dt) /\ twin' = Stepped(twin, dt)
BothStir ==
  Both /\ \E strength \in StirStrengths :
            stir(strength) /\ twin' = Stirred(twin, strength)
BothHeatBurst ==
  Both /\ \E strength \in HeatStrengths :
            heat_burst(strength) /\ twin' = Burst(twin, strength)
BothSetBlobWax ==
  Both /\ \E index \in {0, MaxBlobs} :
            set_blob_wax(index, "volatile") /\ twin' = WaxSet(twin, index, "volatile")
BothSetBlobWaxCustom ==
  Both /\ \E c \in CustomChoices :
            set_blob_wax_custom(1, c) /\ twin' = CustomSet(twin, 1, c)

NextTwin ==
  \/ BothReset \/ BothStep \/ BothStir \/ BothHeatBurst
  \/ BothSetBlobWax \/ BothSetBlobWaxCustom

SpecTwin == Init /\ [][NextTwin]_vars

\* ------------------------------------------------------------------------
\* Specification: the lamp on screen.  The first engine is stepped and heated
\* RenderOps times and rendered in between, in any scheme and geometry of the
\* model; the second engine gets the same operations and is never rendered.
\* frame holds the image of the render that led to the state, if any.  A render
\* directly after a render gives the image that the first one could have
\* given, so the model renders once between two operations.
\* ------------------------------------------------------------------------
Schemes == {SchemeClassic, SchemeOceanFire}
\* width, height, render_scale: a lamp drawn at 4 x 10 pixels, one whose scaled
\* width is below 4, one whose scaled height is below 4, and one at full scale
\* whose bottom row lies in the taper of the silhouette
Geometries ==
  {<<12, 30, 3500>>, <<8, 40, 3500>>, <<20, 10, 3500>>, <<5, 31, S>>}

Shown == nops < RenderOps /\ nops' = nops + 1 /\ frame' = NoFrame

ShownStep == Shown /\ step(500) /\ twin' = Stepped(twin, 500)
ShownHeatBurst == Shown /\ heat_burst(9000) /\ twin' = Burst(twin, 9000)
ShownStir == Shown /\ stir(200000) /\ twin' = Stirred(twin, 200000)
Render ==
  /\ last.op # "render_frame"
  /\ \E scheme \in Schemes : \E g \in Geometries :
       render_frame(scheme, g[1], g[2], g[3])
  /\ UNCHANGED <<nops, twin>>

NextRender == ShownStep \/ ShownHeatBurst \/ ShownStir \/ Render

SpecRender == Init /\ [][NextRender]_vars

\* ------------------------------------------------------------------------
\* Specification: engines built with one parameter field at zero or negative
\* (PhysicsParams takes any value; app.py passes --warmup on unchecked), then
\* ParamOps operations, among them materials with one multiplier at zero
\* ------------------------------------------------------------------------
ParamFields == DOMAIN PhysicsParams

\* the defaults, and the defaults with one field at zero or negated
ParamVariants ==
  {PhysicsParams} \cup
  UNION {{[PhysicsParams EXCEPT ![f] = 0],
          [PhysicsParams EXCEPT ![f] = -PhysicsParams[f]]} : f \in ParamFields}

\* a repeated frame (dt = 0) and a frame of the clamp value
ParamDts == {0, 500}
\* the ends of the warm-up slider, in seconds
WarmupChoices == {3 * S, 60 * S}
\* density, heat_sensitivity, viscosity, expansion: one multiplier at zero
ZeroChoices ==
  {<<0, S, S, S>>, <<S, 0, S, S>>, <<S, S, 0, S>>, <<S, S, S, 0>>}

InitParams == \E p \in ParamVariants : Construct(1, p, 1)

\* an exception ends the run of the engine that raised it
Running == ~last.err /\ nops < ParamOps /\ nops' = nops + 1 /\ Solo

StepChecked == Running /\ \E dt \in ParamDts : step_or_raise(dt)
ResetAny == Running /\ \E c \in ResetChoices : reset(c[1], c[2])
StirHard == Running /\ stir(200000)
HeatFull == Running /\ heat_burst(9000)
SetWarmup == Running /\ \E v \in WarmupChoices : set_warmup_duration(v)
SetZeroWax == Running /\ \E c \in ZeroChoices : set_blob_wax_custom(0, c)

NextParams ==
  StepChecked \/ ResetAny \/ StirHard \/ HeatFull \/ SetWarmup \/ SetZeroWax

SpecParams == InitParams /\ [][NextParams]_vars

\* ------------------------------------------------------------------------
\* Properties
\* ------------------------------------------------------------------------
\* the largest expansion multiplier the controls can give a custom material
MaxExpansion == 25000

\* C1: after any sequence of operations every blob's temperature is within
\* [0, 1].
C1_TemperatureRange ==
  \A k \in DOMAIN blobs : 0 <= blobs[k].temperature /\ blobs[k].temperature <= S

\* C1: a step has run on a blob that sits at the upper end of the range
C1_AtUpperClamp ==
  last.op = "step" /\ \E k \in DOMAIN blobs : blobs[k].temperature = S

\* C2 as stated: every blob's radius is within [cold_radius, warm_radius].
C2_Original ==
  \A k \in DOMAIN blobs :
    /\ blobs[k].cold_radius <= blobs[k].radius
    /\ blobs[k].radius <= blobs[k].warm_radius

\* C2 amended: every blob's radius is at least cold_radius and at most
\* cold_radius + (warm_radius - cold_radius) x the largest expansion multiplier a
\* material can have; directly after a step it is at most
\* cold_radius + (warm_radius - cold_radius) x the expansion of its own material.
C2_RadiusRange ==
  \A k \in DOMAIN blobs :
    LET b == blobs[k]
    IN  /\ b.cold_radius <= b.radius
        /\ b.radius <= b.cold_radius + Mul(b.warm_radius - b.cold_radius, MaxExpansion)
        /\ last.op = "step" =>
             b.radius <= b.cold_radius
                         + Mul(b.warm_radius - b.cold_radius, Wax(b).expansion)

\* C2: a step has expanded a blob beyond its warm_radius
C2_BeyondWarm ==
  last.op = "step" /\ \E k \in DOMAIN blobs : blobs[k].radius > blobs[k].warm_radius

\* the mass of every blob is the cube of its warm_radius
MassIsCube == \A k \in DOMAIN blobs : blobs[k].mass = Cube(blobs[k].warm_radius)

\* C3: a blob's mass is warm_radius cubed from its creation on, and no
\* operation but reset changes the mass or the warm_radius of a blob.
C3_MassConstant ==
  /\ []MassIsCube
  /\ [][last'.op # "reset" =>
          /\ Len(blobs') = Len(blobs)
          /\ \A k \in DOMAIN blobs :
               /\ blobs'[k].mass = blobs[k].mass
               /\ blobs'[k].warm_radius = blobs[k].warm_radius]_vars

\* C3: the budget of operations is used up, the last one a step that evaluated
\* pairs and left a blob expanded
C3_AfterOperations ==
  /\ nops = MaxOps /\ last.op = "step" /\ Len(pairs) > 0
  /\ \E k \in DOMAIN blobs : blobs[k].radius > blobs[k].cold_radius
  /\ MassIsCube

\* the pair of evaluation e is at or beyond the medium-range cutoff:
\* distance >= displacement_range x (radiusA + radiusB)
Far(e) ==
  Distance(e.a0, e.b0) >= Mul(e.a0.radius + e.b0.radius, params.displacement_range)

\* C4: in the pairwise pass, the evaluation of a pair at or beyond the cutoff
\* changes neither blob (so no velocity on any axis) and draws no random number.
C4_FarPairsUntouched ==
  \A n \in DOMAIN pairs :
    Far(pairs[n]) =>
      /\ pairs[n].a1 = pairs[n].a0
      /\ pairs[n].b1 = pairs[n].b0
      /\ pairs[n].s1 = pairs[n].s0

\* C4: the pass of the last step evaluated a pair beyond the cutoff and a pair
\* within it whose velocities it changed
C4_FarPairEvaluated ==
  /\ \E n \in DOMAIN pairs : Far(pairs[n])
  /\ \E n \in DOMAIN pairs : ~Far(pairs[n]) /\ pairs[n].a1 # pairs[n].a0

\* C5: a detached blob becomes grounded only in a step whose floor test found
\* it below 0.25 x radius and clamped it there (or by reset, which replaces it).
C5_GroundedOnlyAtFloor ==
  [][\A k \in DOMAIN blobs :
       (last'.op # "reset" /\ blobs[k].detached /\ ~blobs'[k].detached) =>
         /\ last'.op = "step"
         /\ ev'[k].floor
         /\ blobs'[k].y = Mul(blobs'[k].radius, 2500)]_vars

\* C5: the last step took a detached blob to the floor and grounded it
C5_Regrounded ==
  /\ last.op = "step"
  /\ \E k \in DOMAIN ev : ev[k].was /\ ev[k].floor /\ ~blobs[k].detached

\* C6: with default parameters and the standard material, under repeated steps
\* every blob (all start grounded, at temperature 0 and y of about 0.02) is
\* eventually detached, and the step that first detaches it ends with the
\* accumulated warmup time still below warmup_duration.
C6_MeltsBeforeWarmupEnds ==
  <>(\A k \in DOMAIN blobs :
       detachedAt[k] >= 0 /\ detachedAt[k] < params.warmup_duration)

\* C6: a blob has melted loose during the warmup
C6_DetachedInWarmup ==
  /\ last.op = "step" /\ warmup_time < params.warmup_duration
  /\ \E k \in DOMAIN blobs :
       blobs[k].detached /\ detachedAt[k] > 0 /\ Wax(blobs[k]) = StandardWax

\* C7: heat_burst(strength) sets every blob's temperature to
\* min(1.0, temperature + strength) and changes no other field of a blob, nor
\* warmup_time or anything else of the engine.
C7_HeatBurst ==
  [][last'.op = "heat_burst" =>
       /\ Len(blobs') = Len(blobs)
       /\ \A k \in DOMAIN blobs :
            blobs'[k] = [blobs[k] EXCEPT
                           !.temperature = Min(S, blobs[k].temperature + last'.arg)]
       /\ UNCHANGED <<warmup_time, blob_count, rng, params, heap>>]_vars

\* C7: heat_burst(0.3) has taken a blob from 0.9 to exactly 1.0 (no step has
\* run, so the 0.9 can only come from heat_burst(0.9) on a new blob)
C7_ClampedBurst ==
  /\ last.op = "heat_burst" /\ last.arg = 3000 /\ nops = 2 /\ warmup_time = 0
  /\ \E k \in DOMAIN blobs : blobs[k].temperature = S

\* C8: stir(strength) changes each blob's vx and vz by at most strength and its
\* vy by at most 0.3 x strength, and changes no other field of a blob, nor
\* warmup_time.
C8_StirBounds ==
  [][last'.op = "stir" =>
       /\ Len(blobs') = Len(blobs)
       /\ \A k \in DOMAIN blobs :
            /\ Abs(blobs'[k].vx - blobs[k].vx) <= last'.arg
            /\ Abs(blobs'[k].vz - blobs[k].vz) <= last'.arg
            /\ Abs(blobs'[k].vy - blobs[k].vy) <= Mul(3000, last'.arg)
            /\ blobs'[k] = [blobs[k] EXCEPT !.vx = blobs'[k].vx,
                                            !.vy = blobs'[k].vy,
                                            !.vz = blobs'[k].vz]
       /\ UNCHANGED <<warmup_time, blob_count, params, heap>>]_vars

\* C8: stir(0.5) has moved a new blob from zero velocity
C8_StirredFromRest ==
  /\ last.op = "stir" /\ last.arg = 5000 /\ nops = 1
  /\ \E k \in DOMAIN blobs :
       /\ blobs[k].vx # 0 /\ Abs(blobs[k].vx) <= 5000
       /\ Abs(blobs[k].vz) <= 5000 /\ Abs(blobs[k].vy) <= 1500

\* the call recorded in l is one the setters must ignore: index out of range,
\* or a key that is no preset
Ignored(l, n) ==
  \/ l.idx < 0
  \/ l.idx >= n
  \/ l.op = "set_blob_wax" /\ l.arg \notin DOMAIN WAX_TYPES_INIT

\* the material the call recorded in l asks for
Requested(l) ==
  IF l.op = "set_blob_wax" THEN WAX_TYPES_INIT[l.arg]
  ELSE WaxType("Custom", l.arg[1], l.arg[2], l.arg[3], l.arg[4])

\* C9: set_blob_wax and set_blob_wax_custom raise no error; with an index out
\* of range (or, for set_blob_wax, an unknown key) they leave the engine as it
\* is; otherwise they replace the material reference of the indexed blob by the
\* requested material and change nothing else.
C9_Setters ==
  [][last'.op \in {"set_blob_wax", "set_blob_wax_custom"} =>
       /\ ~last'.err
       /\ IF Ignored(last', Len(blobs))
          THEN UNCHANGED engine
          ELSE /\ UNCHANGED <<warmup_time, blob_count, rng, params>>
               /\ Len(blobs') = Len(blobs)
               /\ \A k \in DOMAIN blobs :
                    blobs'[k] = IF k = last'.idx + 1
                                THEN [blobs[k] EXCEPT !.wax = blobs'[k].wax]
                                ELSE blobs[k]
               /\ heap'[blobs'[last'.idx + 1].wax] = Requested(last')
               /\ \A k \in DOMAIN blobs :
                    k # last'.idx + 1 => heap'[blobs[k].wax] = heap[blobs[k].wax]
               /\ \A id \in 1..NumPresets : heap'[id] = heap[id]]_vars

\* C9: a call with an index past the end has been ignored on an engine in
\* which an earlier call gave a blob a preset
C9_IgnoredCall ==
  /\ last.op = "set_blob_wax" /\ last.idx >= Len(blobs)
  /\ \E k \in DOMAIN blobs : blobs[k].wax <= NumPresets

\* the preset table is as the module defines it
PresetsIntact ==
  \A id \in 1..NumPresets : heap[id] = WAX_TYPES_INIT[WAX_TYPE_NAMES[id]]

\* C10: a material change of blob i leaves the material every other blob sees
\* as it was, and no operation ever modifies an entry of the preset table.
C10_NoSharedMutation ==
  /\ []PresetsIntact
  /\ [][last'.op \in {"set_blob_wax", "set_blob_wax_custom"} =>
          \A j \in DOMAIN blobs :
            j # last'.idx + 1 => heap'[blobs'[j].wax] = heap[blobs[j].wax]]_vars

\* C10: blob i held the same preset object as another blob and has been given
\* custom values; the other blob still holds the preset
C10_SplitFromShared ==
  /\ last.op = "set_blob_wax_custom" /\ last.was \in 1..NumPresets
  /\ last.idx \in 0..(Len(blobs) - 1)
  /\ blobs[last.idx + 1].wax # last.was
  /\ \E j \in DOMAIN blobs : j # last.idx + 1 /\ blobs[j].wax = last.was

\* C11: a step with any dt above 0.05 leaves the engine exactly where a step
\* with dt = 0.05 leaves it from the same state and random draws, and every
\* step advances warmup_time by min(dt, 0.05).
C11_ClampedStep ==
  [][last'.op = "step" =>
       /\ warmup_time' = warmup_time + Min(last'.arg, 500)
       /\ last'.arg > 500 =>
            \E r1 \in {BlobLoop(blobs, heap, 1, params, 500,
                                effective_heat(params, warmup_time + 500), rng, <<>>)} :
            \E r2 \in {_inter_blob_forces(r1.blobs, params, 500, r1.rng)} :
              /\ blobs' = r2.blobs
              /\ rng' = r2.rng
              /\ UNCHANGED <<blob_count, params, heap>>]_vars

\* C11: a step with dt = 0.2 has run on moving blobs (after a stir)
C11_LongPause ==
  /\ last.op = "step" /\ last.arg = 2000
  /\ \E k \in DOMAIN mid : mid[k].vx # 0

\* C12 as stated: warmup_fraction lies in [0, 1], equals
\* min(1, warmup_time / warmup_duration) (1 when warmup_duration <= 0), is 0
\* immediately after reset, and with an unchanged warmup_duration does not
\* decrease between resets.
C12_Original ==
  /\ [](LET wf == warmup_fraction(params, warmup_time)
        IN  /\ 0 <= wf /\ wf <= S
            /\ wf = IF params.warmup_duration <= 0 THEN S
                    ELSE Min(S, Div(warmup_time, params.warmup_duration))
            /\ last.op = "reset" => wf = 0)
  /\ [][last'.op # "reset" /\ params'.warmup_duration = params.warmup_duration
          => warmup_fraction(params', warmup_time') >= warmup_fraction(params, warmup_time)]_vars

\* C12 amended: as stated, but immediately after reset warmup_fraction is 0 only
\* when warmup_duration > 0; when warmup_duration <= 0 it is 1 then as well.
C12_WarmupFraction ==
  /\ [](LET wf == warmup_fraction(params, warmup_time)
        IN  /\ 0 <= wf /\ wf <= S
            /\ wf = IF params.warmup_duration <= 0 THEN S
                    ELSE Min(S, Div(warmup_time, params.warmup_duration))
            /\ last.op = "reset" =>
                 wf = IF params.warmup_duration > 0 THEN 0 ELSE S)
  /\ [][last'.op # "reset" /\ params'.warmup_duration = params.warmup_duration
          => warmup_fraction(params', warmup_time') >= warmup_fraction(params, warmup_time)]_vars

\* C12: a lamp without warm-up period has been reset as its second operation
C12_ResetWithoutWarmup ==
  /\ last.op = "reset" /\ nops = 2
  /\ params.warmup_duration <= 0
  /\ warmup_fraction(params, warmup_time) = S

\* C13: immediately after construction or reset(count) the list holds count + 1
\* blobs, the last one the pool (warm_radius 0.19 at x = z = 0, y = 0.02); every
\* blob has temperature 0, zero velocity, detached = false, the standard
\* material and radius = cold_radius = warm_radius x cold_radius_fraction; and
\* warmup_time is 0.  No error is raised.
C13_FreshBlobs ==
  last.op \in {"init", "reset"} =>
    /\ ~last.err
    /\ blob_count = last.arg
    /\ Len(blobs) = last.arg + 1
    /\ warmup_time = 0
    /\ LET pool == blobs[Len(blobs)]
       IN  pool.warm_radius = 1900 /\ pool.x = 0 /\ pool.z = 0 /\ pool.y = 200
    /\ \A k \in DOMAIN blobs :
         /\ blobs[k].temperature = 0
         /\ blobs[k].vx = 0 /\ blobs[k].vy = 0 /\ blobs[k].vz = 0
         /\ ~blobs[k].detached
         /\ Wax(blobs[k]) = WaxType("Standard", S, S, S, S)
         /\ blobs[k].cold_radius = Mul(blobs[k].warm_radius, params.cold_radius_fraction)
         /\ blobs[k].radius = blobs[k].cold_radius

\* C13: reset(MaxCount) as the second operation on an engine that was built
\* with one ring blob and a cold_radius_fraction other than the default
C13_ResetToMore ==
  /\ last.op = "reset" /\ last.arg = MaxCount /\ nops = 2
  /\ params.cold_radius_fraction # 3500

\* C20: with one parameter field at zero or negative, or one material
\* multiplier at zero, step(dt) completes: no division by zero and no square
\* root of a negative number is evaluated.
C20_StepCompletes == last.op = "step" => ~last.err

\* C20: a step has completed on a lamp with warmup_duration = 0 whose first
\* blob has a material of density zero
C20_SteppedAtZero ==
  /\ last.op = "step" /\ last.arg = 500 /\ ~last.err
  /\ params.warmup_duration = 0
  /\ Wax(blobs[1]).density = 0

C15_RenderReadsOnly ==
  /\ [](/\ twin.blobs = blobs /\ twin.warmup_time = warmup_time
        /\ twin.rng = rng /\ twin.params = params)
  /\ [][last'.op = "render_frame" /\ last.op # "render_frame"
          => UNCHANGED engine]_vars

\* C15: moving, warming blobs have been rendered, some pixels as wax
C15_RenderedInMotion ==
  /\ last.op = "render_frame" /\ frame # NoFrame
  /\ nops = 2 /\ warmup_time = 500
  /\ \E k \in DOMAIN blobs : blobs[k].vx # 0 /\ blobs[k].temperature > 0
  /\ \E q \in Pixels(frame.rw, frame.rh) : frame.is_wax[q]

\* sum of r2 / (dist2 + 0.001) over all blobs, without cutoff
UnboundedField(bs, x01, blob_y) ==
  SeqSum([k \in DOMAIN bs |-> Div(ProjectedR2(bs[k]), Dist2(bs[k], x01, blob_y) + 10)])

\* C19 as stated: the wax classification of every pixel computed with the
\* cutoff at 3 projected radii equals the one computed with the unbounded sum.
C19_Original ==
  frame # NoFrame =>
    \A q \in Pixels(frame.rw, frame.rh) :
      frame.is_wax[q] =
        (/\ UnboundedField(blobs, X01(q[2], frame.rw), S - Y01(q[1], frame.rh)) > S
         /\ Abs(X01(q[2], frame.rw)) < 2 * lamp_radius(S - Y01(q[1], frame.rh)))

\* a blob with the fields x, y, z, radius and temperature of b and with arbitrary
\* other values in every other field
OnlyShown(b) ==
  [x |-> b.x, y |-> b.y, z |-> b.z, radius |-> b.radius,
   temperature |-> b.temperature,
   vx |-> 1, vy |-> 1, vz |-> 1, warm_radius |-> 1, cold_radius |-> 1,
   base_radius |-> 1, mass |-> 1, detached |-> ~b.detached,
   color |-> <<1, 2, 3>>, hot_color |-> <<4, 5, 6>>, wax |-> 1, label |-> <<"other">>]

Buffer(img, rows, cols) ==
  /\ DOMAIN img = (0..(rows - 1)) \X (0..(cols - 1))
  /\ \A q \in DOMAIN img :
        /\ Len(img[q]) = 4
        /\ \A c \in 1..4 : img[q][c] \in 0..255

\* C17 as stated: render_frame returns a buffer of exactly floor(height x
\* render_scale) rows and floor(width x render_scale) columns of 4 channels,
\* every byte in 0..255.
C17_Original ==
  frame # NoFrame =>
    Buffer(frame.img, (frame.height * frame.render_scale) \div S,
                      (frame.width * frame.render_scale) \div S)

\* C17: render_frame returns a buffer of max(4, floor(height x render_scale))
\* rows and max(4, floor(width x render_scale)) columns of 4 channels, every
\* byte in 0..255.
C17_BufferShape ==
  frame # NoFrame =>
    Buffer(frame.img, Max(4, (frame.height * frame.render_scale) \div S),
                      Max(4, (frame.width * frame.render_scale) \div S))

\* C17: a frame with wax whose scaled width is below 4 and whose scaled height
\* is above it
C17_NarrowFrame ==
  /\ frame # NoFrame
  /\ (frame.width * frame.render_scale) \div S < 4
  /\ (frame.height * frame.render_scale) \div S > 4
  /\ \E q \in Pixels(frame.rw, frame.rh) : frame.is_wax[q]

\* C18: every pixel's alpha is 0 or 255, and 255 exactly when the pixel lies
\* inside the lamp silhouette, |x| < 2 x lamp_radius(height), whatever the
\* blobs; the bottom glow leaves alpha as it was and changes the colour only
\* of pixels whose alpha is not 0.
C18_AlphaIsSilhouette ==
  frame # NoFrame =>
    \A q \in Pixels(frame.rw, frame.rh) :
      /\ frame.img[q][4] \in {0, 255}
      /\ frame.img[q][4] = 255 <=>
            Abs(X01(q[2], frame.rw)) < 2 * lamp_radius(S - Y01(q[1], frame.rh))
      /\ frame.img[q][4] = frame.pre[q][4]
      /\ frame.img[q] # frame.pre[q] => frame.pre[q][4] # 0

\* C18: a frame with wax whose glow rows hold a pixel outside the silhouette
\* within the reach of the glow, and a pixel inside it that the glow changed
C18_GlowAtTheEdge ==
  /\ frame # NoFrame
  /\ \E q \in Pixels(frame.rw, frame.rh) : frame.is_wax[q]
  /\ \E q \in Pixels(frame.rw, frame.rh) :
        /\ q[1] >= frame.rh - GlowRows(frame.rh)
        /\ GlowDist(q[1], q[2], frame.rw, frame.rh) < S
        /\ frame.img[q][4] = 0
  /\ \E q \in Pixels(frame.rw, frame.rh) :
        frame.img[q][4] = 255 /\ frame.img[q] # frame.pre[q]

\* the pair of evaluation e before the evaluation
Before(e) == [a |-> e.a0, b |-> e.b0]

\* the pair of evaluation e after the evaluation
After(e) == [a |-> e.a1, b |-> e.b1]

\* the pair of evaluation e is in close range: distance < 0.7 x combined_radius
Close(e) == Distance(e.a0, e.b0) < Mul(e.a0.radius + e.b0.radius, 7000)

\* the pair of evaluation e after the hard repulsion and the thermal-separation
\* nudge alone
HardOnly(e) ==
  Repelled(Before(e), params, Direction(e.a0, e.b0, Distance(e.a0, e.b0)),
           MassRatio(e.a0.mass, e.b0.mass),
           Div(CloseDist(e.a0, e.b0) - Distance(e.a0, e.b0), CloseDist(e.a0, e.b0)))

\* the pair pr of evaluation e after the positional repulsion and the approach
\* deflection of a step of dt seconds
Medium(e, pr, dt) ==
  Deflected(Displaced(pr, params, dt, Direction(e.a0, e.b0, Distance(e.a0, e.b0)),
                      MassRatio(e.a0.mass, e.b0.mass),
                      Falloff(Distance(e.a0, e.b0), CloseDist(e.a0, e.b0),
                              FarDist(e.a0, e.b0, params))),
            params, Direction(e.a0, e.b0, Distance(e.a0, e.b0)),
            MassRatio(e.a0.mass, e.b0.mass),
            Falloff(Distance(e.a0, e.b0), CloseDist(e.a0, e.b0),
                    FarDist(e.a0, e.b0, params)),
            Hypot(Direction(e.a0, e.b0, Distance(e.a0, e.b0)).z, 0,
                  Direction(e.a0, e.b0, Distance(e.a0, e.b0)).x),
            e.s0)

\* C21 as stated: the positional repulsion and the approach deflection are
\* applied only to pairs with 0.7 x combined_radius <= distance <
\* displacement_range x combined_radius; a pair in close range receives only the
\* hard repulsion and the thermal-separation nudge.
C21_Original ==
  \A n \in DOMAIN pairs :
    (~Far(pairs[n]) /\ Close(pairs[n])) => After(pairs[n]) = HardOnly(pairs[n])

\* C21: the positional repulsion and the approach deflection are applied to
\* every pair with distance < displacement_range x combined_radius, the pairs in
\* close range included: a pair in close range receives the hard repulsion and
\* the thermal-separation nudge and then the medium-range effects, a pair with
\* 0.7 x combined_radius <= distance receives the medium-range effects alone.
C21_MediumRangeWithinFar ==
  \A n \in DOMAIN pairs :
    ~Far(pairs[n]) =>
      \E r \in {Medium(pairs[n],
                       IF Close(pairs[n]) THEN HardOnly(pairs[n])
                       ELSE Before(pairs[n]),
                       Min(last.arg, 500))} :
        /\ pairs[n].a1 = r.a
        /\ pairs[n].b1 = r.b
        /\ pairs[n].s1 = r.rng

\* C21: the last step evaluated a pair in close range to which the medium-range
\* effects gave a velocity change beyond the hard repulsion, and a pair between
\* the close and the far distance
C21_CloseAndMediumPairs ==
  /\ last.op = "step"
  /\ \E n \in DOMAIN pairs :
       /\ ~Far(pairs[n]) /\ Close(pairs[n])
       /\ After(pairs[n]) # HardOnly(pairs[n])
  /\ \E n \in DOMAIN pairs :
       /\ ~Far(pairs[n]) /\ ~Close(pairs[n])
       /\ After(pairs[n]) # Before(pairs[n])

\* C22: in a step a grounded blob becomes detached (in the buoyancy block) if and
\* only if, after the thermal update of that step, its temperature exceeds
\* melt_temp and sqrt((temperature - melt_temp)/(1 - melt_temp)) > 0.35; the
\* launch impulse, between 0.12 and 0.20 divided by max(viscosity, 0.1), is added
\* to vy in the step of that transition, for that blob, and in no other: never
\* for a blob that was detached at the start of the step.
C22_DetachAndLaunch ==
  [][last'.op = "step" =>
       \A k \in DOMAIN blobs :
         /\ ev'[k].melted <=>
              /\ ~blobs[k].detached
              /\ blobs'[k].temperature > params.melt_temp
              /\ Ramp(params, blobs'[k].temperature) > 3500
         /\ ev'[k].melted =>
              /\ ev'[k].kick >= Div(1200, Max(Wax(blobs[k]).viscosity, 1000))
              /\ ev'[k].kick <= Div(2000, Max(Wax(blobs[k]).viscosity, 1000))
         /\ ~ev'[k].melted => ev'[k].kick = 0
         /\ blobs[k].detached => ev'[k].kick = 0 /\ ~ev'[k].melted]_vars

\* C22: the last step detached a grounded blob with a launch impulse and gave
\* none to a blob above the melt ramp of 0.35 that was detached before
C22_LaunchedBesideDetached ==
  /\ last.op = "step"
  /\ \E k \in DOMAIN ev : ~ev[k].was /\ ev[k].melted /\ ev[k].kick > 0
  /\ \E k \in DOMAIN ev :
       /\ ev[k].was /\ ev[k].kick = 0
       /\ Ramp(params, blobs[k].temperature) > 3500

\* blob b without its velocity
AtRest(b) == [b EXCEPT !.vx = 0, !.vy = 0, !.vz = 0]

\* C23: at the end of every step every blob satisfies 0.25 x radius <= y <=
\* 1 - 0.25 x radius and sqrt(x^2 + z^2) <= wall_radius - 0.4 x radius, hence y
\* in [0, 1] and x, z in [-1, 1]; the interaction pass, which runs after the
\* clamps, changes velocities and nothing else of a blob.
C23_InsideTheVessel ==
  last.op = "step" =>
    \A k \in DOMAIN blobs :
      /\ Mul(blobs[k].radius, 2500) <= blobs[k].y
      /\ blobs[k].y <= S - Mul(blobs[k].radius, 2500)
      /\ Hypot(blobs[k].x, 0, blobs[k].z)
           <= params.wall_radius - Mul(blobs[k].radius, 4000)
      /\ 0 <= blobs[k].y /\ blobs[k].y <= S
      /\ Abs(blobs[k].x) <= S /\ Abs(blobs[k].z) <= S
      /\ AtRest(blobs[k]) = AtRest(mid[k])

\* C23: the last step put a blob back on the wall, one on the floor and one on
\* the ceiling, and its interaction pass has evaluated the pairs
C23_ClampedAllRound ==
  /\ last.op = "step"
  /\ \E k \in DOMAIN ev : ev[k].wall
  /\ \E k \in DOMAIN ev : ev[k].floor
  /\ \E k \in DOMAIN ev : ev[k].ceil
  /\ Len(pairs) > 0

\* C24: whenever a step clamps a blob to the floor (its y fell below 0.25 x
\* radius), the blob is grounded at the end of the step, also when it became
\* detached earlier in the same step, and its vy was set to +0.15 x |vy| before
\* the interaction pass; whenever a step clamps a blob to the ceiling, its vy
\* was set to -0.25 x |vy| and its detached flag is left as it was: set if the
\* blob entered the step detached or melted loose in it.
C24_FloorGroundsCeilingDoesNot ==
  last.op = "step" =>
    \A k \in DOMAIN ev :
      /\ ev[k].floor =>
           /\ ~blobs[k].detached /\ ~mid[k].detached
           /\ mid[k].y = Mul(mid[k].radius, 2500)
           /\ mid[k].vy = Mul(Abs(ev[k].vy_at_floor), 1500)
      /\ ev[k].ceil =>
           /\ mid[k].y = S - Mul(mid[k].radius, 2500)
           /\ mid[k].vy = -Mul(Abs(ev[k].vy_at_ceiling), 2500)
           /\ blobs[k].detached = mid[k].detached
           /\ ~ev[k].floor => (mid[k].detached <=> (ev[k].was \/ ev[k].melted))

\* C24: the last step clamped to the floor a falling blob that had melted loose
\* in the same step, and clamped to the ceiling a rising blob that was detached
C24_FlooredAndCeiled ==
  /\ last.op = "step"
  /\ \E k \in DOMAIN ev :
       ev[k].floor /\ ev[k].melted /\ ev[k].vy_at_floor < 0 /\ ~blobs[k].detached
  /\ \E k \in DOMAIN ev :
       ev[k].ceil /\ ev[k].vy_at_ceiling > 0 /\ blobs[k].detached

\* temperatures from 0 to 1 in steps of 0.05
Temperatures == {500 * i : i \in 0..20}

\* cold_radius + (warm_radius - cold_radius) x expansion x s(clamp(temp / 0.6,
\* 0, 1)) with s(t) = t^2 (3 - 2 t), for blob b with its material
RadiusAt(b, temp) ==
  LET t == Max(0, Min(S, Div(temp, 6000)))
  IN  b.cold_radius
      + Mul(Mul(b.warm_radius - b.cold_radius, Wax(b).expansion),
            Mul(Mul(t, t), 3 * S - 2 * t))

\* C25: after each step a blob's radius is a function of its temperature alone,
\* cold_radius + (warm_radius - cold_radius) x expansion x s(clamp(temperature /
\* 0.6, 0, 1)) with s(t) = t^2 (3 - 2 t); that function is non-decreasing in the
\* temperature (from each of the Temperatures to the next), is cold_radius at
\* temperature 0 and is the same for every temperature >= 0.6.
C25_RadiusOfTemperature ==
  \A k \in DOMAIN blobs :
    /\ last.op = "step" => blobs[k].radius = RadiusAt(blobs[k], blobs[k].temperature)
    /\ RadiusAt(blobs[k], 0) = blobs[k].cold_radius
    /\ \A temp \in Temperatures :
         /\ temp < S => RadiusAt(blobs[k], temp) <= RadiusAt(blobs[k], temp + 500)
         /\ temp >= 6000 => RadiusAt(blobs[k], temp) = RadiusAt(blobs[k], 6000)

\* C25: the last step left one blob on the plateau, at a temperature above 0.6,
\* and one partly expanded, at a temperature between 0 and 0.6
C25_OnAndBelowThePlateau ==
  /\ last.op = "step"
  /\ \E k \in DOMAIN blobs :
       /\ blobs[k].temperature > 6000
       /\ blobs[k].radius = RadiusAt(blobs[k], 6000)
       /\ blobs[k].radius > blobs[k].cold_radius
  /\ \E k \in DOMAIN blobs :
       /\ blobs[k].temperature > 0 /\ blobs[k].temperature < 6000
       /\ blobs[k].radius > blobs[k].cold_radius
       /\ blobs[k].radius < RadiusAt(blobs[k], 6000)

\* ------------------------------------------------------------------------
\* heat transfer at the base
\* ------------------------------------------------------------------------
\* the heat the base gives in a step of dt to a blob of the given mass and
\* material that enters the step at height y:
\* proximity^2 x 3 x effective_heat x mass_scale x heat_sensitivity x dt
Raise(y, mass, b, dt) ==
  Mul(Mul(Mul(Mul(Mul(Mul(Max(0, S - Div(y, params.heat_zone)),
                          Max(0, S - Div(y, params.heat_zone))), 3 * S),
                  effective_heat(params, warmup_time)),
              6000 + Mul(8000, S - mass \div 700)),
          Wax(b).heat_sensitivity), dt)

\* C26 as stated: after every step, a blob that entered it below heat_zone is
\* hotter by the raise (clamped at 1), whatever the effective heat is, and a
\* blob that entered it at or above heat_zone is no hotter
C26_Original ==
  last.op = "step" =>
    \A k \in 1..Len(blobs) :
      /\ ev[k].y0 < params.heat_zone =>
           blobs[k].temperature
             = Min(S, ev[k].temp0 + Raise(ev[k].y0, blobs[k].mass, blobs[k],
                                          Min(last.arg, 500)))
      /\ ev[k].y0 >= params.heat_zone => blobs[k].temperature <= ev[k].temp0

\* C26: after every step, a blob that entered it below heat_zone is hotter by
\* the raise (clamped at 1) when the effective heat exceeds 0.01 and keeps its
\* temperature when it does not; a blob that entered the step at or above
\* heat_zone is no hotter
C26_HeatedAboveTheThreshold ==
  last.op = "step" =>
    \A k \in 1..Len(blobs) :
      /\ ev[k].y0 < params.heat_zone /\ effective_heat(params, warmup_time) > 100 =>
           blobs[k].temperature
             = Min(S, ev[k].temp0 + Raise(ev[k].y0, blobs[k].mass, blobs[k],
                                          Min(last.arg, 500)))
      /\ ev[k].y0 < params.heat_zone /\ effective_heat(params, warmup_time) <= 100 =>
           blobs[k].temperature = ev[k].temp0
      /\ ev[k].y0 >= params.heat_zone => blobs[k].temperature <= ev[k].temp0

\* a step in which one blob below heat_zone is heated short of 1 and another
\* is above heat_zone, and a step of a lamp too cold to heat a blob at its base
C26_HeatedAndUnheated ==
  /\ last.op = "step"
  /\ effective_heat(params, warmup_time) > 100
  /\ \E k \in 1..Len(blobs) :
       /\ ev[k].y0 < params.heat_zone
       /\ ev[k].temp0 < blobs[k].temperature
       /\ blobs[k].temperature < S
  /\ \E k \in 1..Len(blobs) : ev[k].y0 >= params.heat_zone

\* ------------------------------------------------------------------------
\* the order of the interaction pass
\* ------------------------------------------------------------------------
\* the unordered pairs of n blobs, and the place of pair q in index order
UnorderedPairs(n) == {q \in (1..n) \X (1..n) : q[1] < q[2]}

Place(q, n) ==
  1 + Cardinality({r \in UnorderedPairs(n) :
                     r[1] < q[1] \/ (r[1] = q[1] /\ r[2] < q[2])})

\* the pair evaluated in place m of a pass over n blobs
PairAt(m, n) == CHOOSE q \in UnorderedPairs(n) : Place(q, n) = m

\* the evaluations before place m that blob k took part in
Earlier(k, m) == {e \in 1..(m - 1) : k \in {PairAt(e, Len(blobs))[1],
                                            PairAt(e, Len(blobs))[2]}}

\* blob k as the evaluations before place m have left it: as its own update
\* left it when it took part in none
Seen(k, m) ==
  IF Earlier(k, m) = {} THEN mid[k]
  ELSE LET e == CHOOSE x \in Earlier(k, m) : \A y \in Earlier(k, m) : y <= x
       IN  IF PairAt(e, Len(blobs))[1] = k THEN pairs[e].a1 ELSE pairs[e].b1

\* C27: after a step the interaction pass has evaluated every unordered pair
\* once, in index order; each evaluation started from its two blobs as their
\* own updates and the earlier evaluations of the pass had left them, at the
\* position its own update gave it, and the blobs of the lamp are what the last
\* evaluations left
C27_PairsOnceInOrder ==
  last.op = "step" =>
    /\ Len(pairs) = Cardinality(UnorderedPairs(Len(blobs)))
    /\ \A m \in 1..Len(pairs) :
         /\ pairs[m].a0 = Seen(PairAt(m, Len(blobs))[1], m)
         /\ pairs[m].b0 = Seen(PairAt(m, Len(blobs))[2], m)
         /\ \A q \in {<<pairs[m].a0, mid[PairAt(m, Len(blobs))[1]]>>,
                       <<pairs[m].b0, mid[PairAt(m, Len(blobs))[2]]>>} :
              q[1].x = q[2].x /\ q[1].y = q[2].y /\ q[1].z = q[2].z
    /\ \A k \in 1..Len(blobs) : blobs[k] = Seen(k, Len(pairs) + 1)

\* a pass over three blobs in which the last pair starts from velocities that
\* the two pairs before it have changed
C27_LaterPairSeesEarlier ==
  /\ last.op = "step"
  /\ Len(blobs) = 3
  /\ Len(pairs) = 3
  /\ pairs[1].a1 # pairs[1].a0
  /\ pairs[2].a0 = pairs[1].a1
  /\ pairs[3].a0 = pairs[1].b1 /\ pairs[3].a0 # mid[2]
  /\ pairs[3].b0 = pairs[2].b1 /\ pairs[3].b0 # mid[3]

\* ------------------------------------------------------------------------
\* the split of the pair forces between the two blobs
\* ------------------------------------------------------------------------
\* the thermal-separation nudge of evaluation e: what it adds to the vy of the
\* first blob of the pair
Nudge(e) ==
  IF Close(e) /\ Abs(e.a0.temperature - e.b0.temperature) > 1000
  THEN Mul(Mul(e.a0.temperature - e.b0.temperature,
               Div(CloseDist(e.a0, e.b0) - Distance(e.a0, e.b0),
                   CloseDist(e.a0, e.b0))),
           params.thermal_separation)
  ELSE 0

\* the velocity changes da and db of blobs of mass ma and mb are opposite and
\* in inverse proportion to the masses: ma x da + mb x db = 0, to within tol
\* (the masses in units of 10^-7)
Balanced(ma, mb, da, db, tol) ==
  /\ Abs((ma \div 100) * da + (mb \div 100) * db)
       <= tol * ((ma + mb) \div 100) + Abs(da) + Abs(db)
  /\ (da <= tol /\ db >= -tol) \/ (da >= -tol /\ db <= tol)
  /\ ma <= mb => Abs(da) + tol >= Abs(db)
  /\ mb <= ma => Abs(db) + tol >= Abs(da)

\* C28: in every evaluation of a pair the velocity changes of the two blobs,
\* the thermal-separation nudge taken out of the change of vy, are opposite and
\* satisfy massA x deltaVA + massB x deltaVB = 0 on every axis (to within
\* 0.0008, the rounding of the terms to four decimals), the lighter blob getting
\* the larger change; the
\* nudge is added to the vy of one blob and subtracted from the vy of the other
\* whatever their masses are
C28_SplitByMass ==
  \A n \in DOMAIN pairs :
    \E e \in {pairs[n]} :
      /\ Balanced(e.a0.mass, e.b0.mass, e.a1.vx - e.a0.vx, e.b1.vx - e.b0.vx, 8)
      /\ Balanced(e.a0.mass, e.b0.mass, e.a1.vz - e.a0.vz, e.b1.vz - e.b0.vz, 8)
      /\ Balanced(e.a0.mass, e.b0.mass, e.a1.vy - e.a0.vy - Nudge(e),
                  e.b1.vy - e.b0.vy + Nudge(e), 8)

\* a close pair of unequal masses and temperatures that was pushed apart on
\* every axis and nudged, the change of the lighter blob the larger by far
C28_UnequalPairPushedAndNudged ==
  \E n \in DOMAIN pairs :
    \E e \in {pairs[n]} :
      /\ Close(e)
      /\ Nudge(e) # 0
      /\ e.a0.mass * 2 < e.b0.mass
      /\ Abs(e.b1.vx - e.b0.vx) > 80
      /\ Abs(e.a1.vx - e.a0.vx) > 2 * Abs(e.b1.vx - e.b0.vx)
      /\ Abs(e.b1.vz - e.b0.vz) > 80
      /\ Abs(e.b1.vy - e.b0.vy + Nudge(e)) > 80

\* ------------------------------------------------------------------------
\* degenerate pair geometry
\* ------------------------------------------------------------------------
\* the centres of the pair of evaluation e coincide
Coincide(e) == e.a0.x = e.b0.x /\ e.a0.y = e.b0.y /\ e.a0.z = e.b0.z

\* the length of the horizontal perpendicular to the connecting axis of the
\* pair of evaluation e
PerpLen(e) ==
  Hypot(-Direction(e.a0, e.b0, Distance(e.a0, e.b0)).z, 0,
        Direction(e.a0, e.b0, Distance(e.a0, e.b0)).x)

\* C29: a step of a lamp whose displacement range is at least the close range
\* completes whatever the geometry of its pairs is; a pair with coincident
\* centres is evaluated as a pair at distance 0.001 (its velocities change by the
\* thermal-separation nudge for the overlap at that distance and by nothing
\* else); the lateral direction of every deflection has unit length (to within
\* 0.01), and it is drawn from the random generator, by one draw, exactly when
\* the horizontal perpendicular is shorter than 0.01
C29_DegenerateGeometry ==
  /\ (last.op = "step" /\ params.displacement_range >= 7000) => ~last.err
  /\ \A n \in DOMAIN pairs :
       \E e \in {pairs[n]} :
         /\ Coincide(e) =>
              /\ ~Far(e) <=> 10 < FarDist(e.a0, e.b0, params)
              /\ ~Far(e) =>
                   /\ ~e.pushed
                   /\ e.a1.vx = e.a0.vx /\ e.a1.vz = e.a0.vz
                   /\ e.b1.vx = e.b0.vx /\ e.b1.vz = e.b0.vz
                   /\ e.a1.vy - e.a0.vy = e.b0.vy - e.b1.vy
                   /\ e.a1.vy - e.a0.vy =
                        IF 10 < CloseDist(e.a0, e.b0)
                           /\ Abs(e.a0.temperature - e.b0.temperature) > 1000
                        THEN Mul(Mul(e.a0.temperature - e.b0.temperature,
                                     Div(CloseDist(e.a0, e.b0) - 10,
                                         CloseDist(e.a0, e.b0))),
                                 params.thermal_separation)
                        ELSE 0
         /\ e.pushed =>
              /\ Abs(Hypot(e.lat.x, 0, e.lat.z) - S) <= 100
              /\ PerpLen(e) < 100 =>
                   /\ e.s1 = RngNext(e.s0)
                   /\ e.lat.x = Cos(Uniform(0, TwoPi, e.s0))
                   /\ e.lat.z = Sin(Uniform(0, TwoPi, e.s0))
              /\ PerpLen(e) >= 100 => e.s1 = e.s0
         /\ ~e.pushed => e.s1 = e.s0

\* a pass that evaluated a pair with coincident centres and unequal
\* temperatures, which was nudged, and deflected a pair whose horizontal
\* perpendicular was not zero but shorter than 0.01
C29_CoincidentAndStacked ==
  /\ last.op = "step"
  /\ ~last.err
  /\ \E n \in DOMAIN pairs :
       /\ Coincide(pairs[n]) /\ ~Far(pairs[n])
       /\ pairs[n].a1.vy # pairs[n].a0.vy
  /\ \E n \in DOMAIN pairs :
       /\ pairs[n].pushed
       /\ PerpLen(pairs[n]) > 0 /\ PerpLen(pairs[n]) < 100

\* ------------------------------------------------------------------------
\* the falloff weight
\* ------------------------------------------------------------------------
\* the falloff denominator far_dist - close_dist + 0.001 of evaluation e
FalloffRange(e) == FarDist(e.a0, e.b0, params) - CloseDist(e.a0, e.b0) + 10

\* the falloff weight t of evaluation e
WeightOf(e) ==
  Weight(Distance(e.a0, e.b0), CloseDist(e.a0, e.b0), FarDist(e.a0, e.b0, params))

\* distances from 0 to the far distance of evaluation e, an eighth of it apart
Nearer(e) == {(k * FarDist(e.a0, e.b0, params)) \div 8 : k \in 0..7}

====
